---- MODULE Spec2Model ----
(***************************************************************************)
(* Model of aiterm: the allow-list gate (executor.py), the model fallback  *)
(* loop and the conversation turn (main.py), the prompt assembler          *)
(* (prompt_builder.py) and the adapter factory (llm/factory.py).           *)
(*                                                                         *)
(* Text is modelled as a sequence of one-character strings, so that the    *)
(* tokenizer, strip(), startswith() and endswith() are computed the way    *)
(* the Python code computes them.                                          *)
(***************************************************************************)
EXTENDS Integers, Sequences, FiniteSets, TLC

VARIABLES
    call,                 \* SpecGate: the executor call just made
    ret,                  \* SpecGate: what the call returned
    ran,                  \* SpecGate: commands handed to subprocess.run by the call
    config,               \* Config.load(): models, providers, default_models, allowed_commands, env
    user_model,           \* the -m option, or None
    description_text,     \* ' '.join(description), or None when no description was given
    pc,                   \* where main / process_query stands
    models_to_try,        \* main: result of build_model_list
    idx,                  \* main: position of the for loop in models_to_try
    attempts,             \* what create_adapter did for each candidate tried so far
    errors,               \* main: the errors list
    printed,              \* error entries printed under "Tried models:"
    successful_model,     \* main: successful_model
    selected,             \* main: value returned by process_query
    exit_code,            \* process exit status, None while running
    adapter,              \* adapter bound to the candidate being tried
    query,                \* process_query: query of the current turn
    conversation_history, \* process_query: conversation_history
    available_commands,   \* process_query: available_commands
    command_history,      \* process_query: command_history
    exec_results,         \* process_query: exec_results
    prompt,               \* process_query: prompt handed to adapter.generate
    suggestions,          \* process_query: parsed suggestions of the current turn
    probe_runs,           \* process_query: what each probe command's execute_command returned
    context_info,         \* process_query: context_info, and whether the probe's except clause ran
    turn_log,             \* process_query: the calls made so far in the current turn, in order
    spawn_log,            \* every command handed to subprocess.run, with the phase that ran it
    gate                  \* which branch of the execution gate was taken

gate_vars == <<call, ret, ran>>

main_vars == <<config, user_model, description_text, pc, models_to_try, idx, attempts, errors,
               printed, successful_model, selected, exit_code, adapter, query,
               conversation_history, available_commands, command_history, exec_results,
               prompt, suggestions, probe_runs, context_info, turn_log,
               spawn_log, gate>>

vars == <<gate_vars, main_vars>>

\* ------------------------------------------------------------------------
\* Bounds of the model
\* ------------------------------------------------------------------------
MaxCmdLen == 3        \* longest enumerated command string (SpecGate)
MaxContinue == 2      \* continuation turns allowed per candidate (Spec)
MaxGather == 2        \* longest command list given to gather_context
MaxTypedLen == 2      \* longest enumerated line typed at the presenter's prompt (SpecTui)

\* ------------------------------------------------------------------------
\* Generic text helpers
\* ------------------------------------------------------------------------
None == "None"              \* None where the other values are names
NoneText == <<"None">>      \* None where the other values are texts
NoneRec == [none |-> TRUE]  \* None where the other values are records
NotExited == -1             \* exit_code while the process runs

\* the main program is not running (SpecGate)
MainIdle ==
    /\ pc = "idle"
    /\ config = NoneRec /\ user_model = None /\ description_text = NoneText
    /\ models_to_try = <<>> /\ idx = 0 /\ attempts = <<>> /\ errors = <<>> /\ printed = <<>>
    /\ successful_model = None /\ selected = NoneRec /\ exit_code = NotExited
    /\ adapter = NoneRec
    /\ query = NoneText /\ conversation_history = <<>> /\ available_commands = <<>>
    /\ command_history = <<>> /\ exec_results = <<>> /\ prompt = <<>> /\ suggestions = <<>>
    /\ probe_runs = <<>> /\ context_info = NoneRec /\ turn_log = <<>>
    /\ spawn_log = {} /\ gate = None

RECURSIVE Strings(_, _)
\* all texts over alphabet A of length at most n
Strings(A, n) ==
    IF n = 0 THEN {<<>>}
    ELSE LET shorter == Strings(A, n - 1)
         IN  shorter \cup {Append(s, c) : s \in {t \in shorter : Len(t) = n - 1}, c \in A}

RECURSIVE SeqsUpTo(_, _)
\* all sequences over S of length at most n
SeqsUpTo(S, n) ==
    IF n = 0 THEN {<<>>}
    ELSE LET shorter == SeqsUpTo(S, n - 1)
         IN  shorter \cup {Append(s, c) : s \in {t \in shorter : Len(t) = n - 1}, c \in S}

Range(s) == {s[i] : i \in 1..Len(s)}

\* str.startswith
startswith(s, p) == Len(p) <= Len(s) /\ SubSeq(s, 1, Len(p)) = p

\* str.endswith
endswith(s, p) == Len(p) <= Len(s) /\ SubSeq(s, Len(s) - Len(p) + 1, Len(s)) = p

StripWhitespace == {" ", "\t", "\n", "\r"}

RECURSIVE lstrip(_)
lstrip(s) == IF s # <<>> /\ Head(s) \in StripWhitespace THEN lstrip(Tail(s)) ELSE s

RECURSIVE rstrip(_)
rstrip(s) ==
    IF s # <<>> /\ s[Len(s)] \in StripWhitespace THEN rstrip(SubSeq(s, 1, Len(s) - 1)) ELSE s

\* str.strip
strip(s) == rstrip(lstrip(s))

\* ------------------------------------------------------------------------
\* shlex.split(command) in POSIX mode (whitespace_split, no commenters)
\* ------------------------------------------------------------------------
shlex_whitespace == {" ", "\t", "\r", "\n"}
shlex_quotes == {"'", "\""}
shlex_escape == {"\\"}
shlex_escapedquotes == {"\""}

RECURSIVE shlex_scan(_, _, _, _, _, _, _)
\* state is " " (between tokens), "a" (in a word), a quote or the escape
\* character, as in shlex.read_token; ok = FALSE stands for ValueError
shlex_scan(s, i, state, escapedstate, token, quoted, out) ==
    IF i > Len(s) THEN
        CASE state = " " -> [ok |-> TRUE, parts |-> out]
          [] state = "a" -> [ok |-> TRUE,
                             parts |-> IF token # <<>> \/ quoted THEN Append(out, token) ELSE out]
          [] OTHER -> [ok |-> FALSE, parts |-> <<>>]
    ELSE
        LET c == s[i] IN
        CASE state = " " ->
               IF c \in shlex_whitespace
               THEN shlex_scan(s, i + 1, " ", escapedstate, token, quoted, out)
               ELSE IF c \in shlex_escape
               THEN shlex_scan(s, i + 1, c, "a", token, quoted, out)
               ELSE IF c \in shlex_quotes
               THEN shlex_scan(s, i + 1, c, escapedstate, token, quoted, out)
               ELSE shlex_scan(s, i + 1, "a", escapedstate, <<c>>, quoted, out)
          [] state \in shlex_quotes ->
               IF c = state
               THEN shlex_scan(s, i + 1, "a", escapedstate, token, TRUE, out)
               ELSE IF c \in shlex_escape /\ state \in shlex_escapedquotes
               THEN shlex_scan(s, i + 1, c, state, token, TRUE, out)
               ELSE shlex_scan(s, i + 1, state, escapedstate, Append(token, c), TRUE, out)
          [] state \in shlex_escape ->
               LET tok == IF escapedstate \in shlex_quotes /\ c # state /\ c # escapedstate
                          THEN Append(Append(token, state), c)
                          ELSE Append(token, c)
               IN  shlex_scan(s, i + 1, escapedstate, escapedstate, tok, quoted, out)
          [] OTHER ->
               IF c \in shlex_whitespace
               THEN shlex_scan(s, i + 1, " ", " ", <<>>, FALSE,
                               IF token # <<>> \/ quoted THEN Append(out, token) ELSE out)
               ELSE IF c \in shlex_quotes
               THEN shlex_scan(s, i + 1, c, escapedstate, token, quoted, out)
               ELSE IF c \in shlex_escape
               THEN shlex_scan(s, i + 1, c, "a", token, quoted, out)
               ELSE shlex_scan(s, i + 1, "a", escapedstate, Append(token, c), quoted, out)

shlex_split(command) == shlex_scan(command, 1, " ", " ", <<>>, FALSE, <<>>)

\* ------------------------------------------------------------------------
\* executor.py : CommandExecutor
\* ------------------------------------------------------------------------
\* CommandExecutor.is_command_allowed, first token taken from another place
is_command_allowed_last(command, allowed) ==
    LET r == shlex_split(command)
    IN  IF ~r.ok THEN FALSE
        ELSE IF r.parts = <<>> THEN FALSE
        ELSE r.parts[Len(r.parts)] \in allowed

\* CommandExecutor.is_command_allowed answering for the tokens read before the error
is_command_allowed_partial(command, allowed) ==
    LET r == shlex_split(command)
    IN  IF ~r.ok THEN \E w \in allowed : startswith(lstrip(command), w)
        ELSE IF r.parts = <<>> THEN FALSE
        ELSE r.parts[1] \in allowed

\* CommandExecutor.is_command_allowed
is_command_allowed(command, allowed) ==
    LET r == shlex_split(command)
    IN  IF ~r.ok THEN FALSE
        ELSE IF r.parts = <<>> THEN FALSE
        ELSE r.parts[1] \in allowed

\* what subprocess.run(command, shell=True, capture_output=True, timeout=10) can do
RunOutcomes ==
    {[kind |-> "completed", returncode |-> rc, stdout |-> out] :
        rc \in {0, 1}, out \in {<<>>, <<"o">>}}
    \cup {[kind |-> "TimeoutExpired", returncode |-> 0, stdout |-> <<>>],
          [kind |-> "OSError", returncode |-> 0, stdout |-> <<>>]}

\* the characters that end a simple command of /bin/sh when they are not quoted
sh_operators == {";", "&", "|"}

RECURSIVE sh_scan(_, _, _, _, _, _)
\* state is " " (between words), "a" (in a word), a quote, the escape character
\* outside quotes or "e" (the escape character inside double quotes); cmdpos says
\* that the simple command being read has no word yet; out lists the first words
sh_scan(s, i, state, word, cmdpos, out) ==
    LET ended == IF cmdpos THEN Append(out, word) ELSE out IN
    IF i > Len(s) THEN
        CASE state = " " -> out
          [] state = "a" -> ended
          [] OTHER -> <<>>
    ELSE
        LET c == s[i] IN
        CASE state \in {" ", "a"} ->
               IF c \in shlex_whitespace
               THEN IF state = "a" THEN sh_scan(s, i + 1, " ", <<>>, FALSE, ended)
                    ELSE sh_scan(s, i + 1, " ", <<>>, cmdpos, out)
               ELSE IF c \in sh_operators
               THEN sh_scan(s, i + 1, " ", <<>>, TRUE, IF state = "a" THEN ended ELSE out)
               ELSE IF c \in shlex_quotes \cup shlex_escape
               THEN sh_scan(s, i + 1, c, word, cmdpos, out)
               ELSE sh_scan(s, i + 1, "a", Append(word, c), cmdpos, out)
          [] state = "'" ->
               IF c = "'" THEN sh_scan(s, i + 1, "a", word, cmdpos, out)
               ELSE sh_scan(s, i + 1, state, Append(word, c), cmdpos, out)
          [] state = "\"" ->
               IF c = "\"" THEN sh_scan(s, i + 1, "a", word, cmdpos, out)
               ELSE IF c \in shlex_escape THEN sh_scan(s, i + 1, "e", word, cmdpos, out)
               ELSE sh_scan(s, i + 1, state, Append(word, c), cmdpos, out)
          [] state = "e" ->
               sh_scan(s, i + 1, "\"",
                       IF c \in {"\"", "\\"} THEN Append(word, c)
                       ELSE Append(Append(word, "\\"), c),
                       cmdpos, out)
          [] OTHER ->
               sh_scan(s, i + 1, "a", Append(word, c), cmdpos, out)

\* subprocess.run(command, shell=True): the programs that /bin/sh -c command starts,
\* the first word of every simple command of a list joined by ; & && | ||
\* (nothing is started for a command with an unclosed quote)
shell_programs(command) == sh_scan(command, 1, " ", <<>>, TRUE, <<>>)

\* CommandExecutor.execute_command, the allow-list test dropped
execute_command_nogate(command, require_confirmation, allowed, outcome) ==
    CASE outcome.kind = "completed" ->
           [success |-> TRUE, stdout |-> outcome.stdout, stderr |-> "", spawned |-> TRUE]
      [] outcome.kind = "TimeoutExpired" ->
           [success |-> FALSE, stdout |-> <<>>, stderr |-> "Command timed out", spawned |-> TRUE]
      [] OTHER ->
           [success |-> FALSE, stdout |-> <<>>, stderr |-> "str(e)", spawned |-> TRUE]

\* CommandExecutor.execute_command with a run that timed out reported as a success
execute_command_timeout_ok(command, require_confirmation, allowed, outcome) ==
    IF ~is_command_allowed(command, allowed) /\ require_confirmation
    THEN [success |-> FALSE, stdout |-> <<>>,
          stderr |-> "Command not in allow-list and confirmation required",
          spawned |-> FALSE]
    ELSE CASE outcome.kind \in {"completed", "TimeoutExpired"} ->
                [success |-> TRUE, stdout |-> outcome.stdout, stderr |-> "", spawned |-> TRUE]
           [] OTHER ->
                [success |-> FALSE, stdout |-> <<>>, stderr |-> "str(e)", spawned |-> TRUE]

\* CommandExecutor.execute_command; spawned tells whether subprocess.run was called
execute_command(command, require_confirmation, allowed, outcome) ==
    IF ~is_command_allowed(command, allowed) /\ require_confirmation
    THEN [success |-> FALSE, stdout |-> <<>>,
          stderr |-> "Command not in allow-list and confirmation required",
          spawned |-> FALSE]
    ELSE CASE outcome.kind = "completed" ->
                [success |-> TRUE, stdout |-> outcome.stdout, stderr |-> "", spawned |-> TRUE]
           [] outcome.kind = "TimeoutExpired" ->
                [success |-> FALSE, stdout |-> <<>>, stderr |-> "Command timed out",
                 spawned |-> TRUE]
           [] OTHER ->
                [success |-> FALSE, stdout |-> <<>>, stderr |-> "str(e)", spawned |-> TRUE]

\* a dict update: d[k] = v
DictSet(d, k, v) == [x \in DOMAIN d \cup {k} |-> IF x = k THEN v ELSE d[x]]

EmptyDict == [x \in {} |-> <<>>]

RECURSIVE gather_context_loop(_, _, _, _, _, _)
gather_context_loop(commands, allowed, outcomes, i, context, spawned) ==
    IF i > Len(commands) THEN [context |-> context, spawned |-> spawned]
    ELSE LET cmd == commands[i] IN
         IF is_command_allowed(cmd, allowed)
         THEN LET r == execute_command(cmd, FALSE, allowed, outcomes[i])
              IN  gather_context_loop(commands, allowed, outcomes, i + 1,
                      IF r.success THEN DictSet(context, cmd, r.stdout) ELSE context,
                      IF r.spawned THEN Append(spawned, cmd) ELSE spawned)
         ELSE gather_context_loop(commands, allowed, outcomes, i + 1, context, spawned)

RECURSIVE gather_context_all_loop(_, _, _, _, _, _)
\* gather_context running every command, as the probe loop of process_query does
gather_context_all_loop(commands, allowed, outcomes, i, context, spawned) ==
    IF i > Len(commands) THEN [context |-> context, spawned |-> spawned]
    ELSE LET cmd == commands[i]
             r == execute_command(cmd, FALSE, allowed, outcomes[i])
         IN  gather_context_all_loop(commands, allowed, outcomes, i + 1,
                 IF r.success THEN DictSet(context, cmd, r.stdout) ELSE context,
                 IF r.spawned THEN Append(spawned, cmd) ELSE spawned)

gather_context_all(commands, allowed, outcomes) ==
    gather_context_all_loop(commands, allowed, outcomes, 1, EmptyDict, <<>>)

\* CommandExecutor.gather_context; outcomes[i] is what running commands[i] does
gather_context(commands, allowed, outcomes) ==
    gather_context_loop(commands, allowed, outcomes, 1, EmptyDict, <<>>)

\* ------------------------------------------------------------------------
\* SpecGate: the executor's three operations applied to enumerated inputs
\* ------------------------------------------------------------------------
LS == <<"l", "s">>
RM == <<"r", "m">>
PWD == <<"p", "w", "d">>
LS_LA == <<"l", "s", " ", "-", "l", "a">>
RM_RF == <<"r", "m", " ", "-", "r", "f", " ", "/">>

\* the commands the gate is checked on: enumerated ones and hand-picked ones
Commands ==
    Strings({"l", "s", "r", " ", "'"}, MaxCmdLen)
    \cup
    {LS_LA, RM_RF, RM, PWD,
     <<"l", "s", " ", "r">>,                       \* ls r
     <<"'", "l", "s", "'">>,                       \* 'ls'
     <<"l", "s", " ", "'">>,                       \* ls '   (unbalanced)
     <<" ", "l", "s", " ">>,
     <<"l", "\\", "s">>,                          \* l\s
     <<"\"", "l", "s", "\"", " ", "r", "m">>,       \* "ls" rm
     <<"l", "s", ";", "r", "m">>,                  \* ls;rm
     <<"l", "s", " ", ";", " ", "r", "m">>,        \* ls ; rm
     <<"r", "m", " ", "l", "s">>,                  \* rm ls
     <<"l", "s", " ", "\"", "r", "m">>,            \* ls "rm   (unbalanced)
     <<"l", "s", " ", "&", "&", " ", "r", "m">>,   \* ls && rm
     <<"l", "s", " ", "|", " ", "r", "m">>,        \* ls | rm
     <<"l", "s", " ", "'", ";", "'", " ", "r", "m">>,   \* ls ';' rm
     <<"l", "s", "\\">>}                          \* ls\   (nothing after the escape)

AllowSets == SUBSET {LS, RM}

\* what the runs started by gather_context do: one outcome of each kind that
\* gather_context tells apart (output kept, empty output kept, nothing kept)
GatherOutcomes ==
    {[kind |-> "completed", returncode |-> 0, stdout |-> <<"o">>],
     [kind |-> "completed", returncode |-> 1, stdout |-> <<>>],
     [kind |-> "TimeoutExpired", returncode |-> 0, stdout |-> <<>>]}

NotReturned == [done |-> FALSE]
Returned(v) == [done |-> TRUE, value |-> v]

\* the calls the gate is checked on
InitGate ==
    /\ call \in
        {[op |-> "is_command_allowed", command |-> command, allowed |-> allowed] :
            command \in Commands, allowed \in AllowSets}
        \cup
        {[op |-> "execute_command", command |-> command, allowed |-> allowed,
          require_confirmation |-> require_confirmation, outcome |-> outcome] :
            command \in Commands, allowed \in AllowSets,
            require_confirmation \in BOOLEAN, outcome \in RunOutcomes}
        \cup
        UNION {{[op |-> "gather_context", commands |-> commands, allowed |-> allowed,
                 outcomes |-> outcomes] :
                   allowed \in AllowSets, outcomes \in [1..Len(commands) -> GatherOutcomes]} :
               commands \in SeqsUpTo({LS, RM, LS_LA, <<"l", "s", " ", "'">>, <<>>}, MaxGather)}
    /\ ret = NotReturned
    /\ ran = <<>>
    /\ MainIdle

GateIsAllowed ==
    /\ call.op = "is_command_allowed"
    /\ ret = NotReturned
    /\ ret' = Returned(is_command_allowed(call.command, call.allowed))
    /\ UNCHANGED <<call, ran, main_vars>>

GateExecute ==
    /\ call.op = "execute_command"
    /\ ret = NotReturned
    /\ LET r == execute_command(call.command, call.require_confirmation, call.allowed,
                                call.outcome) IN
        /\ ret' = Returned([success |-> r.success, stdout |-> r.stdout, stderr |-> r.stderr])
        /\ ran' = IF r.spawned THEN <<call.command>> ELSE <<>>
    /\ UNCHANGED <<call, main_vars>>

GateGather ==
    /\ call.op = "gather_context"
    /\ ret = NotReturned
    /\ LET r == gather_context(call.commands, call.allowed, call.outcomes) IN
        /\ ret' = Returned(r.context)
        /\ ran' = r.spawned
    /\ UNCHANGED <<call, main_vars>>

SpecGate == InitGate /\ [][GateIsAllowed \/ GateExecute \/ GateGather]_vars

\* ------------------------------------------------------------------------
\* Properties of the allow-list gate (SpecGate)
\* ------------------------------------------------------------------------
PlainWords == {LS, RM, <<"r">>}

\* C3: is_command_allowed is false for an empty token sequence and otherwise
\* true exactly when the first shell token is in the allow set; appending
\* further tokens to a command never changes the answer.
C3_FirstTokenDecides ==
    (call.op = "is_command_allowed" /\ ret.done) =>
        LET r == shlex_split(call.command) IN
        /\ (r.ok /\ r.parts = <<>>) => ret.value = FALSE
        /\ (r.ok /\ r.parts # <<>>) =>
              /\ ret.value = (r.parts[1] \in call.allowed)
              /\ \A w \in PlainWords :
                    is_command_allowed(call.command \o <<" ">> \o w, call.allowed) = ret.value
        /\ (call.command = LS_LA /\ LS \in call.allowed) => ret.value = TRUE
        /\ call.command = <<>> => ret.value = FALSE
        /\ (call.command = RM_RF /\ RM \notin call.allowed) => ret.value = FALSE

\* "ls rm" was answered with "ls" allowed and "rm" not
C3_Witness ==
    /\ call.op = "is_command_allowed" /\ ret.done
    /\ call.command = <<"l", "s", " ", "r">>
    /\ call.allowed = {LS}
    /\ ret.value = TRUE

\* C4: with require_confirmation, a command that is not allow-listed ends in
\* the permission-denied result and nothing is spawned; a command is spawned
\* only when it is allow-listed or require_confirmation is false.
C4_DeniedWithoutSpawn ==
    (call.op = "execute_command" /\ ret.done) =>
        LET ok == is_command_allowed(call.command, call.allowed) IN
        /\ (call.require_confirmation /\ ~ok) =>
              /\ ret.value.success = FALSE
              /\ ret.value.stdout = <<>>
              /\ ret.value.stderr = "Command not in allow-list and confirmation required"
              /\ ran = <<>>
        /\ ran # <<>> => (ok \/ ~call.require_confirmation)

\* "rm -rf /" was refused while rm is not allow-listed
C4_Witness ==
    /\ call.op = "execute_command" /\ ret.done
    /\ call.command = RM_RF /\ call.allowed = {LS}
    /\ call.require_confirmation
    /\ call.outcome.kind = "completed"
    /\ ret.value.success = FALSE

UpperLetters == <<"A", "B", "C", "D", "E", "F", "G", "H", "I", "J", "K", "L", "M", "N", "O", "P", "Q", "R", "S", "T", "U", "V", "W", "X", "Y", "Z">>
LowerLetters == <<"a", "b", "c", "d", "e", "f", "g", "h", "i", "j", "k", "l", "m", "n", "o", "p", "q", "r", "s", "t", "u", "v", "w", "x", "y", "z">>
DigitChars == <<"0", "1", "2", "3", "4", "5", "6", "7", "8", "9">>

lower_char(c) ==
    IF \E i \in 1..26 : UpperLetters[i] = c
    THEN LowerLetters[CHOOSE i \in 1..26 : UpperLetters[i] = c]
    ELSE c

\* str.lower
lower(s) == [i \in 1..Len(s) |-> lower_char(s[i])]

\* sub in s
IsSubstring(sub, s) ==
    \E i \in 0..(Len(s) - Len(sub)) : SubSeq(s, i + 1, i + Len(sub)) = sub

RECURSIVE join(_, _)
\* sep.join(texts)
join(sep, texts) ==
    IF texts = <<>> THEN <<>>
    ELSE IF Len(texts) = 1 THEN texts[1]
    ELSE texts[1] \o sep \o join(sep, Tail(texts))

\* str.isdigit
isdigit(s) == s # <<>> /\ \A i \in 1..Len(s) : s[i] \in Range(DigitChars)

DigitValue(c) == (CHOOSE i \in 1..10 : DigitChars[i] = c) - 1

RECURSIVE int(_)
\* int(s) for a text of digits
int(s) == IF s = <<>> THEN 0 ELSE 10 * int(SubSeq(s, 1, Len(s) - 1)) + DigitValue(s[Len(s)])

\* ------------------------------------------------------------------------
\* main.py : is_valid_api_key, build_model_list
\* ------------------------------------------------------------------------
placeholders ==
    <<<<"y", "o", "u", "r", "_", "a", "p", "i", "_", "k", "e", "y", "_", "h", "e", "r", "e">>, <<"y", "o", "u", "r", "-", "a", "p", "i", "-", "k", "e", "y">>, <<"Y", "O", "U", "R", "_", "A", "P", "I", "_", "K", "E", "Y">>, <<"<", "y", "o", "u", "r", "-", "a", "p", "i", "-", "k", "e", "y", ">">>,
      <<"s", "k", "-", ".", ".", ".">>, <<"s", "k", "-", "a", "n", "t", "-", ".", ".", ".">>, <<".", ".", ".">>, <<"x", "x", "x">>, <<"T", "O", "D", "O">>, <<"<", "Y", "O", "U", "R", "_", "A", "P", "I", "_", "K", "E", "Y", ">">>,
      <<"{", "Y", "O", "U", "R", "_", "A", "P", "I", "_", "K", "E", "Y", "}">>,
      <<"$", "{", "Y", "O", "U", "R", "_", "A", "P", "I", "_", "K", "E", "Y", "}">>,
      <<"y", "o", "u", "r", "_", "k", "e", "y", "_", "h", "e", "r", "e">>, <<"p", "l", "a", "c", "e", "h", "o", "l", "d", "e", "r">>, <<"t", "e", "s", "t">>, <<"d", "e", "m", "o">>>>

\* characters matched by [a-zA-Z0-9_\-]
KeyChars == Range(UpperLetters) \cup Range(LowerLetters) \cup Range(DigitChars) \cup {"_", "-"}

MinKeyLen == 20

\* is_valid_api_key with the length test off by one
is_valid_api_key_longer_only(api_key) ==
    IF api_key = NoneText \/ api_key = <<>> THEN FALSE
    ELSE LET k == strip(api_key) IN
         IF lower(k) \in {lower(placeholders[i]) : i \in 1..Len(placeholders)} THEN FALSE
         ELSE IF Len(k) <= MinKeyLen THEN FALSE
         ELSE IF ~(\A i \in 1..Len(k) : k[i] \in KeyChars) THEN FALSE
         ELSE TRUE

\* is_valid_api_key
is_valid_api_key(api_key) ==
    IF api_key = NoneText \/ api_key = <<>> THEN FALSE
    ELSE LET k == strip(api_key) IN
         IF lower(k) \in {lower(placeholders[i]) : i \in 1..Len(placeholders)} THEN FALSE
         ELSE IF Len(k) < MinKeyLen THEN FALSE
         ELSE IF ~(\A i \in 1..Len(k) : k[i] \in KeyChars) THEN FALSE
         ELSE TRUE

\* truth value of an Optional[str]
Truthy(x) == x # NoneText /\ x # <<>>

env_var_map == [openai |-> "OPENAI_API_KEY", anthropic |-> "ANTHROPIC_API_KEY"]

\* build_model_list.get_api_key_for_model
get_api_key_for_model(cfg, model_name) ==
    IF model_name \notin DOMAIN cfg.models THEN NoneText
    ELSE LET model_config == cfg.models[model_name]
             provider == model_config.provider
             provider_key == IF provider \in DOMAIN cfg.providers
                             THEN cfg.providers[provider].api_key ELSE NoneText
             env_key == IF provider \in DOMAIN env_var_map
                        THEN cfg.env[env_var_map[provider]] ELSE NoneText
         IN  IF Truthy(model_config.api_key) /\ is_valid_api_key(model_config.api_key)
             THEN model_config.api_key
             ELSE IF Truthy(provider_key) /\ is_valid_api_key(provider_key)
             THEN provider_key
             ELSE IF provider \in DOMAIN env_var_map /\ is_valid_api_key(env_key)
             THEN env_key
             ELSE IF provider = "ollama" THEN <<"o", "l", "l", "a", "m", "a", "-", "l", "o", "c", "a", "l">>
             ELSE NoneText

RECURSIVE build_model_list_loop(_, _, _, _)
\* the loop over config.default_models; models_to_try holds (model_name, api_key) pairs
build_model_list_loop(cfg, i, try_list, seen_models) ==
    IF i > Len(cfg.default_models) THEN try_list
    ELSE LET model_name == cfg.default_models[i]
             api_key == get_api_key_for_model(cfg, model_name)
         IN  IF model_name \notin seen_models /\ api_key # NoneText
             THEN build_model_list_loop(cfg, i + 1, Append(try_list, <<model_name, api_key>>),
                                        seen_models \cup {model_name})
             ELSE build_model_list_loop(cfg, i + 1, try_list, seen_models)

build_model_list(cfg, user) ==
    LET user_key == IF user # None THEN get_api_key_for_model(cfg, user) ELSE NoneText
    IN  IF user # None /\ user_key # NoneText
        THEN build_model_list_loop(cfg, 1, <<<<user, user_key>>>>, {user})
        ELSE build_model_list_loop(cfg, 1, <<>>, {})

\* ------------------------------------------------------------------------
\* llm/factory.py : create_adapter
\* ------------------------------------------------------------------------
PROVIDER_ADAPTERS == {"ollama", "openai", "anthropic"}

\* what create_adapter can do for a model: return None, raise, or return an adapter
create_adapter_outcomes(model_name, cfg) ==
    IF model_name \notin DOMAIN cfg.models THEN {"None"}
    ELSE IF cfg.models[model_name].provider \notin PROVIDER_ADAPTERS THEN {"None"}
    ELSE {"adapter", "raise"}

\* ------------------------------------------------------------------------
\* Configurations the program is started with (config.py : Config)
\* ------------------------------------------------------------------------
VALID_KEY == <<"s", "k", "-", "a", "a", "a", "a", "a", "a", "a", "a", "a", "a", "a", "a", "a", "a", "a", "a", "a">>

\* Config._create_default with API keys set on three of the models
ConfigWith(gpt4_key, claude_key, test_key, defaults, allowed) ==
    [default_models |-> defaults,
     allowed_commands |-> allowed,
     providers |->
        [ollama |-> [base_url |-> <<"h", "t", "t", "p", ":", "/", "/", "l", "o", "c", "a", "l", "h", "o", "s", "t", ":", "1", "1", "4", "3", "4">>, api_key |-> NoneText],
         openai |-> [base_url |-> NoneText, api_key |-> NoneText],
         anthropic |-> [base_url |-> NoneText, api_key |-> NoneText],
         test |-> [base_url |-> NoneText, api_key |-> NoneText]],
     models |->
        [gpt4 |-> [provider |-> "openai", api_key |-> gpt4_key,
                   include_path_commands |-> FALSE, include_history_context |-> FALSE],
         claude |-> [provider |-> "anthropic", api_key |-> claude_key,
                     include_path_commands |-> FALSE, include_history_context |-> FALSE],
         ollama |-> [provider |-> "ollama", api_key |-> NoneText,
                     include_path_commands |-> TRUE, include_history_context |-> TRUE],
         test |-> [provider |-> "test", api_key |-> test_key,
                   include_path_commands |-> TRUE, include_history_context |-> TRUE]],
     env |-> [OPENAI_API_KEY |-> NoneText, ANTHROPIC_API_KEY |-> NoneText]]

\* a default_models list that tries the local model first
LocalFirst == <<"ollama", "gpt4", "claude">>

\* allowed_commands of the configurations; one of them has the shorter list [ls]
MainAllowed == {LS, PWD}

Configs ==
    {ConfigWith(NoneText, NoneText, NoneText, <<"test", "gpt4", "claude", "ollama">>,
                MainAllowed),
     ConfigWith(VALID_KEY, VALID_KEY, NoneText, LocalFirst, MainAllowed),
     ConfigWith(VALID_KEY, NoneText, VALID_KEY, <<"test", "gpt4">>, {LS}),
     ConfigWith(NoneText, NoneText, VALID_KEY, <<"test", "gpt4">>, MainAllowed),
     ConfigWith(NoneText, NoneText, NoneText, <<"gpt4">>, MainAllowed)}

\* the -m option is given with the configuration that has a key for that model and
\* with the one that has no usable model at all
StartInputs ==
    {<<cfg, None>> : cfg \in Configs}
    \cup {<<ConfigWith(VALID_KEY, VALID_KEY, NoneText, LocalFirst, MainAllowed), "claude">>,
          <<ConfigWith(NoneText, NoneText, NoneText, <<"gpt4">>, MainAllowed), "claude">>}

\* ------------------------------------------------------------------------
\* bloom_filter.py : should_ignore_command (bf: the names the filter answers yes for)
\* ------------------------------------------------------------------------
should_ignore_command(command, bf) == startswith(command, <<".">>) \/ command \in bf

\* ------------------------------------------------------------------------
\* prompt_builder.py : build_structured_prompt
\* ------------------------------------------------------------------------
\* s[:n]
Take(s, n) == SubSeq(s, 1, IF n < Len(s) THEN n ELSE Len(s))

\* s[n:]
Drop(s, n) == SubSeq(s, n + 1, Len(s))

RECURSIVE filtered_commands(_, _)
\* [x for x in s if not should_ignore_command(x)]
filtered_commands(s, bf) ==
    IF s = <<>> THEN <<>>
    ELSE IF should_ignore_command(Head(s), bf) THEN filtered_commands(Tail(s), bf)
    ELSE <<Head(s)>> \o filtered_commands(Tail(s), bf)

SYSTEM_PROMPT == <<"Y", "o", "u", " ", "a", "r", "e", " ", "a", "n", " ", "A", "I", " ", "t", "e", "r", "m", "i", "n", "a", "l", " ", "a", "s", "s", "i", "s", "t", "a", "n", "t">>

available_commands_limit == 2000
history_context_size == 500

Section(tag, body) == [tag |-> tag, body |-> body]

\* one conversation turn rendered as a section
TurnSection(turn) ==
    IF startswith(turn, <<"u", "s", "e", "r", ":">>) THEN Section("user", strip(Drop(turn, 5)))
    ELSE IF startswith(turn, <<"a", "s", "s", "i", "s", "t", "a", "n", "t", ":">>) THEN Section("assistant", strip(Drop(turn, 10)))
    ELSE Section("user", turn)

\* the conversation part of build_structured_prompt (history: list of texts, <<>> for None)
ConversationSections(user_input, history) ==
    IF history # <<>>
    THEN [i \in 1..Len(history) |-> TurnSection(history[i])]
         \o (IF ~endswith(history[Len(history)], user_input)
             THEN <<Section("user", user_input)>> ELSE <<>>)
    ELSE <<Section("user", user_input)>>

\* the command_history section; hist is a dict with keys among recent_commands, command_history
HistorySections(hist) ==
    IF DOMAIN hist = {} THEN <<>>
    ELSE LET recent_part ==
                 IF "recent_commands" \in DOMAIN hist
                 THEN <<<<"R", "e", "c", "e", "n", "t", " ", "c", "o", "m", "m", "a", "n", "d", "s", ":", "\n">>
                        \o join(<<"\n">>, Take(hist["recent_commands"], history_context_size))>>
                 ELSE <<>>
             older_part ==
                 IF "command_history" \in DOMAIN hist
                 THEN <<<<"F", "r", "e", "q", "u", "e", "n", "t", "l", "y", " ", "u", "s", "e", "d", ":", "\n">>
                        \o join(<<"\n">>, Take(hist["command_history"], history_context_size))>>
                 ELSE <<>>
             history_parts == recent_part \o older_part
         IN  IF history_parts # <<>>
             THEN <<Section("command_history", join(<<"\n">>, history_parts))>>
             ELSE <<>>

\* the exec_result section; results is the dict as a list of (command, output) items
ExecSections(results) ==
    IF results = <<>> THEN <<>>
    ELSE <<Section("exec_result",
                   join(<<"\n">>, [i \in 1..Len(results) |->
                                     <<"$", " ">> \o results[i][1] \o <<"\n">> \o results[i][2]]))>>

\* build_structured_prompt with the limit applied before the names are filtered
build_structured_prompt_cap_first(user_input, instructions, avail, hist, results, history, limit, bf) ==
    <<Section("system_prompt", SYSTEM_PROMPT)>>
    \o (IF Truthy(instructions) THEN <<Section("user_prompt", instructions)>> ELSE <<>>)
    \o (IF avail # <<>>
        THEN <<Section("available_commands",
                       join(<<" ">>, filtered_commands(Take(avail, limit), bf)))>>
        ELSE <<>>)
    \o HistorySections(hist)
    \o ExecSections(results)
    \o ConversationSections(user_input, history)

\* build_structured_prompt; the prompt is kept as its list of parts; limit is the
\* argument available_commands_limit, and history_context_size keeps its default
build_structured_prompt(user_input, instructions, avail, hist, results, history, limit, bf) ==
    <<Section("system_prompt", SYSTEM_PROMPT)>>
    \o (IF Truthy(instructions) THEN <<Section("user_prompt", instructions)>> ELSE <<>>)
    \o (IF avail # <<>>
        THEN <<Section("available_commands",
                       join(<<" ">>, Take(filtered_commands(avail, bf), limit)))>>
        ELSE <<>>)
    \o HistorySections(hist)
    \o ExecSections(results)
    \o ConversationSections(user_input, history)

\* ------------------------------------------------------------------------
\* json.dumps({'suggestions': suggestions})
\* ------------------------------------------------------------------------
RECURSIVE json_escape(_)
json_escape(s) ==
    IF s = <<>> THEN <<>>
    ELSE LET c == Head(s) IN
         (CASE c = "\"" -> <<"\\", "\"">>
            [] c = "\\" -> <<"\\", "\\">>
            [] c = "\n" -> <<"\\", "n">>
            [] OTHER -> <<c>>) \o json_escape(Tail(s))

json_string(s) == <<"\"">> \o json_escape(s) \o <<"\"">>

json_suggestion(sg) ==
    <<"{">> \o json_string(<<"c", "o", "m", "m", "a", "n", "d">>) \o <<":", " ">> \o json_string(sg.command) \o <<",", " ">>
    \o json_string(<<"d", "e", "s", "c", "r", "i", "p", "t", "i", "o", "n">>) \o <<":", " ">> \o json_string(sg.description) \o <<"}">>

json_dumps_suggestions(sgs) ==
    <<"{">> \o json_string(<<"s", "u", "g", "g", "e", "s", "t", "i", "o", "n", "s">>) \o <<":", " ", "[">>
    \o join(<<",", " ">>, [i \in 1..Len(sgs) |-> json_suggestion(sgs[i])])
    \o <<"]", "}">>

\* ------------------------------------------------------------------------
\* Collaborators of the conversation turn
\* ------------------------------------------------------------------------
\* outcomes of subprocess.run met during a session
MainOutcomes ==
    {[kind |-> "completed", returncode |-> 0, stdout |-> <<"o">>],
     [kind |-> "completed", returncode |-> 1, stdout |-> <<>>],
     [kind |-> "TimeoutExpired", returncode |-> 0, stdout |-> <<>>]}

\* what the n runs of one probe do: at most one of them does not produce output
ProbeOutcomes(n) ==
    {[i \in 1..n |-> IF i = k THEN o
                     ELSE [kind |-> "completed", returncode |-> 0, stdout |-> <<"o">>]] :
        k \in 1..n, o \in MainOutcomes}

\* get_path_commands(): raises, or returns the sorted executable names
PathResults ==
    {[raises |-> TRUE, commands |-> <<>>],
     [raises |-> FALSE, commands |-> <<<<".", "x">>, <<"c", "c">>, LS>>]}

\* get_shell_history(): raises, or returns (recent, unique_older)
HistoryResults ==
    {[raises |-> TRUE, recent |-> <<>>, older |-> <<>>],
     [raises |-> FALSE, recent |-> <<LS_LA>>, older |-> <<PWD, LS_LA>>]}

RECURSIVE Dedupe(_, _)
\* keep the first occurrence of each entry
Dedupe(s, seen) ==
    IF s = <<>> THEN <<>>
    ELSE IF Head(s) \in seen THEN Dedupe(Tail(s), seen)
    ELSE <<Head(s)>> \o Dedupe(Tail(s), seen \cup {Head(s)})

\* what adapter.needs_context(query) can answer; raises: the probe loop fails after
\* running the commands listed (the next entry of the list is not a text, or the
\* value given as the list is not one), and the except clause of line 276 runs
needs_context_replies(adp, q) ==
    IF adp.provider \in {"openai", "anthropic"}
    THEN IF \E w \in {<<"c", "u", "r", "r", "e", "n", "t">>, <<"t", "h", "i", "s">>,
                       <<"h", "e", "r", "e">>, <<"s", "h", "o", "w">>} :
               IsSubstring(w, lower(q))
         THEN {[needs |-> TRUE, commands |-> <<PWD, LS_LA>>, raises |-> FALSE]}
         ELSE {[needs |-> FALSE, commands |-> <<>>, raises |-> FALSE]}
    ELSE {[needs |-> FALSE, commands |-> <<>>, raises |-> FALSE],
          [needs |-> TRUE, commands |-> <<RM_RF>>, raises |-> FALSE],
          [needs |-> TRUE, commands |-> <<LS_LA>>, raises |-> TRUE],
          [needs |-> TRUE, commands |-> <<>>, raises |-> TRUE]}

RECURSIVE ProbeLoop(_, _, _, _, _)
\* the probe loop of process_query: every requested command is executed
ProbeLoop(commands, allowed, outcomes, i, results) ==
    IF i > Len(commands) THEN results
    ELSE LET r == execute_command(commands[i], FALSE, allowed, outcomes[i])
         IN  ProbeLoop(commands, allowed, outcomes, i + 1,
                       IF r.success /\ r.stdout # <<>>
                       THEN Append(results, [command |-> commands[i], output |-> r.stdout])
                       ELSE results)

RECURSIVE DictItems(_, _)
\* {item['command']: item['output'] for item in exec_results} as its list of items
DictItems(items, acc) ==
    IF items = <<>> THEN acc
    ELSE LET it == Head(items)
             at == {j \in 1..Len(acc) : acc[j][1] = it.command}
         IN  DictItems(Tail(items),
                       IF at = {} THEN Append(acc, <<it.command, it.output>>)
                       ELSE [j \in 1..Len(acc) |->
                               IF j \in at THEN <<it.command, it.output>> ELSE acc[j]])

\* suggestion lists parse_json_response hands to the presenter
S_LS == [command |-> LS_LA, description |-> <<"l", "i", "s", "t">>]
S_RM == [command |-> RM_RF, description |-> <<"w", "i", "p", "e">>]

\* rich Prompt.ask(default="1"): the default when the line is empty, else the
\* stripped line (PromptBase.__call__ and process_response)
PromptAsk(typed) == IF typed = <<>> THEN <<"1">> ELSE strip(typed)

\* TUI.display_suggestions
display_suggestions(sgs, typed) ==
    IF sgs = <<>> THEN [selected |-> NoneRec, continuation |-> NoneText]
    ELSE LET choice == PromptAsk(typed) IN
         IF lower(choice) = <<"q">> THEN [selected |-> NoneRec, continuation |-> NoneText]
         ELSE IF isdigit(choice) /\ 0 <= int(choice) - 1 /\ int(choice) - 1 < Len(sgs)
         THEN [selected |-> sgs[int(choice)], continuation |-> NoneText]
         ELSE [selected |-> NoneRec, continuation |-> choice]

\* process_query, lines 312-332: what the turn does with the presenter's answer
process_query_result(r) ==
    IF Truthy(r.continuation) THEN "continue"
    ELSE IF r.selected = NoneRec /\ r.continuation = NoneText THEN "QUIT"
    ELSE IF r.selected = NoneRec THEN "None"
    ELSE "selected"

\* main's reaction with the quit value handled like a turn without a response
main_reaction_quit_as_failure(res) ==
    IF res = "selected" THEN "break" ELSE "next"

\* main's reaction going on to the next candidate after a selection
main_reaction_no_break(res) ==
    IF res = "QUIT" THEN "exit" ELSE "next"

\* main, lines 383-392: what the fallback loop does with process_query's value
main_reaction(res) ==
    IF res = "QUIT" THEN "exit"
    ELSE IF res = "selected" THEN "break"
    ELSE "next"

\* ------------------------------------------------------------------------
\* main.py : main and process_query as a state machine
\* ------------------------------------------------------------------------
Init ==
    /\ call = [op |-> "none"] /\ ret = NotReturned /\ ran = <<>>
    /\ config \in Configs
    /\ user_model \in {None, "claude"}
    /\ <<config, user_model>> \in StartInputs
    /\ description_text \in {NoneText, <<"s", "h", "o", "w", " ", "f", "i", "l", "e", "s">>}
    /\ pc = "start"
    /\ models_to_try = <<>> /\ idx = 0 /\ attempts = <<>> /\ errors = <<>> /\ printed = <<>>
    /\ successful_model = None /\ selected = NoneRec /\ exit_code = NotExited
    /\ adapter = NoneRec
    /\ query = NoneText /\ conversation_history = <<>> /\ available_commands = <<>>
    /\ command_history = <<>> /\ exec_results = <<>> /\ prompt = <<>> /\ suggestions = <<>>
    /\ probe_runs = <<>> /\ context_info = NoneRec /\ turn_log = <<>>
    /\ spawn_log = {} /\ gate = None

turn_vars == <<query, conversation_history, available_commands, command_history,
               exec_results, prompt, suggestions, probe_runs,
               context_info, turn_log>>

loop_vars == <<models_to_try, idx, attempts, errors, printed, successful_model, selected,
               adapter>>

input_vars == <<config, user_model, description_text>>

\* number of the turn process_query is in (1 for the first turn)
TurnNo == Len(conversation_history) \div 2 + 1

\* main, lines 340-361: no description, or no model with a valid key, ends with exit code 1
Start ==
    /\ pc = "start"
    /\ IF description_text = NoneText
       THEN /\ exit_code' = 1 /\ pc' = "exit"
            /\ UNCHANGED models_to_try
       ELSE /\ models_to_try' = build_model_list(config, user_model)
            /\ IF models_to_try' = <<>>
               THEN exit_code' = 1 /\ pc' = "exit"
               ELSE pc' = "loop" /\ UNCHANGED exit_code
    /\ UNCHANGED <<gate_vars, input_vars, idx, attempts, errors, printed, successful_model,
                   selected, adapter, turn_vars, spawn_log, gate>>

\* errors.append with the entry put in front
record_error_front(errs, entry) == <<entry>> \o errs

\* errors.append(f"{model_name}: {str(e)}")
record_error(errs, entry) == Append(errs, entry)

\* main, lines 368-372 and 393-395: next candidate, create_adapter
TryNext ==
    /\ pc = "loop"
    /\ idx < Len(models_to_try)
    /\ LET model_name == models_to_try[idx + 1][1] IN
       \E outcome \in create_adapter_outcomes(model_name, config) :
         /\ idx' = idx + 1
         /\ attempts' = Append(attempts, outcome)
         /\ CASE outcome = "None" ->
                   UNCHANGED <<pc, errors, adapter, query, conversation_history>>
              [] outcome = "raise" ->
                   /\ errors' = record_error(errors, [model |-> model_name,
                                    reason |-> "create_adapter raised", cand |-> idx + 1,
                                    later_turn |-> FALSE])
                   /\ UNCHANGED <<pc, adapter, query, conversation_history>>
              [] OTHER ->
                   /\ adapter' = [provider |-> config.models[model_name].provider,
                                  model |-> model_name]
                   /\ query' = description_text
                   /\ conversation_history' = <<>>
                   /\ pc' = "static"
                   /\ UNCHANGED errors
    /\ UNCHANGED <<gate_vars, input_vars, models_to_try, printed, successful_model, selected,
                   exit_code, available_commands, command_history, exec_results, prompt,
                   suggestions, probe_runs, context_info, turn_log, spawn_log, gate>>

\* main, lines 397-403: the loop ended without a working model
Exhausted ==
    /\ pc = "loop"
    /\ idx = Len(models_to_try)
    /\ printed' = errors
    /\ exit_code' = 1
    /\ pc' = "exit"
    /\ UNCHANGED <<gate_vars, input_vars, models_to_try, idx, attempts, errors,
                   successful_model, selected, adapter, turn_vars, spawn_log, gate>>

\* process_query gathering PATH commands and shell history in the first turn only
GatherStatic_first_turn_only ==
    /\ pc = "static"
    /\ LET model_config == config.models[adapter.model] IN
       \E p \in IF model_config.include_path_commands /\ conversation_history = <<>>
                 THEN PathResults
                 ELSE {[raises |-> FALSE, commands |-> <<>>]},
          h \in IF model_config.include_history_context /\ conversation_history = <<>>
                 THEN HistoryResults
                 ELSE {[raises |-> FALSE, recent |-> <<>>, older |-> <<>>]} :
          /\ available_commands' = IF p.raises THEN <<>> ELSE Take(p.commands, 1000)
          /\ command_history' = IF h.raises THEN <<>>
                                 ELSE Dedupe(Take(h.recent, 100) \o Take(h.older, 200), {})
          /\ context_info' =
                 [has_path_commands |-> model_config.include_path_commands /\ ~p.raises,
                  has_history |-> model_config.include_history_context /\ ~h.raises,
                  warning |-> FALSE]
          /\ turn_log' =
                 (IF model_config.include_path_commands /\ conversation_history = <<>>
                  THEN <<"get_path_commands">> ELSE <<>>)
                 \o (IF model_config.include_history_context /\ conversation_history = <<>>
                     THEN <<"get_shell_history">> ELSE <<>>)
    /\ exec_results' = <<>>
    /\ probe_runs' = <<>>
    /\ pc' = "probe"
    /\ UNCHANGED <<gate_vars, input_vars, loop_vars, exit_code, query, conversation_history,
                   prompt, suggestions, spawn_log, gate>>

\* process_query, lines 228-259: PATH commands and shell history, each failing soft
GatherStatic ==
    /\ pc = "static"
    /\ LET model_config == config.models[adapter.model] IN
       \E p \in IF model_config.include_path_commands THEN PathResults
                 ELSE {[raises |-> FALSE, commands |-> <<>>]},
          h \in IF model_config.include_history_context THEN HistoryResults
                 ELSE {[raises |-> FALSE, recent |-> <<>>, older |-> <<>>]} :
          /\ available_commands' = IF p.raises THEN <<>> ELSE Take(p.commands, 1000)
          /\ command_history' = IF h.raises THEN <<>>
                                 ELSE Dedupe(Take(h.recent, 100) \o Take(h.older, 200), {})
          /\ context_info' =
                 [has_path_commands |-> model_config.include_path_commands /\ ~p.raises,
                  has_history |-> model_config.include_history_context /\ ~h.raises,
                  warning |-> FALSE]
          /\ turn_log' =
                 (IF model_config.include_path_commands
                  THEN <<"get_path_commands">> ELSE <<>>)
                 \o (IF model_config.include_history_context
                     THEN <<"get_shell_history">> ELSE <<>>)
    /\ exec_results' = <<>>
    /\ probe_runs' = <<>>
    /\ pc' = "probe"
    /\ UNCHANGED <<gate_vars, input_vars, loop_vars, exit_code, query, conversation_history,
                   prompt, suggestions, spawn_log, gate>>

\* process_query, lines 261-277: needs_context, then every requested command is executed
Probe ==
    /\ pc = "probe"
    /\ \E reply \in needs_context_replies(adapter, query) :
         /\ context_info' = [context_info EXCEPT !.warning = reply.raises]
         /\ IF reply.needs /\ reply.commands # <<>>
            THEN \E outcomes \in ProbeOutcomes(Len(reply.commands)) :
                   /\ exec_results' = ProbeLoop(reply.commands, config.allowed_commands,
                                                outcomes, 1, <<>>)
                   /\ spawn_log' = spawn_log \cup
                          {[command |-> reply.commands[i], phase |-> "probe"] :
                               i \in 1..Len(reply.commands)}
                   /\ probe_runs' = [i \in 1..Len(reply.commands) |->
                          LET r == execute_command(reply.commands[i], FALSE,
                                                   config.allowed_commands, outcomes[i])
                          IN  [command |-> reply.commands[i], kind |-> outcomes[i].kind,
                               success |-> r.success, stdout |-> r.stdout]]
                   /\ turn_log' = Append(turn_log, "needs_context")
                          \o [i \in 1..Len(reply.commands) |-> "execute_command"]
            ELSE /\ turn_log' = Append(turn_log, "needs_context")
                 /\ UNCHANGED <<exec_results, spawn_log, probe_runs>>
    /\ pc' = "prompt"
    /\ UNCHANGED <<gate_vars, input_vars, loop_vars, exit_code, query, conversation_history,
                   available_commands, command_history, prompt, suggestions, gate>>

\* process_query, lines 282-300: the history as tagged texts, then build_structured_prompt
BuildPrompt ==
    /\ pc = "prompt"
    /\ LET conv_history == [i \in 1..Len(conversation_history) |->
                              conversation_history[i].role \o <<":", " ">>
                              \o conversation_history[i].content]
       IN  prompt' = build_structured_prompt(
                        query, NoneText, available_commands,
                        IF command_history # <<>>
                        THEN [k \in {"command_history"} |-> command_history]
                        ELSE EmptyDict,
                        DictItems(exec_results, <<>>), conv_history,
                        available_commands_limit, {<<"c", "c">>})
    /\ turn_log' = Append(turn_log, "build_structured_prompt")
    /\ pc' = "generate"
    /\ UNCHANGED <<gate_vars, input_vars, loop_vars, exit_code, query, conversation_history,
                   available_commands, command_history, exec_results, suggestions,
                   probe_runs, context_info, spawn_log, gate>>

\* process_query, lines 302-307: generate raises (caught in main, lines 393-395) or the
\* response is parsed into suggestions
Generate ==
    /\ pc = "generate"
    /\ \/ /\ errors' = record_error(errors, [model |-> adapter.model,
                           reason |-> "generate raised", cand |-> idx,
                           later_turn |-> (TurnNo > 1)])
          /\ pc' = "loop"
          /\ query' = NoneText /\ conversation_history' = <<>>
          /\ available_commands' = <<>> /\ command_history' = <<>>
          /\ exec_results' = <<>> /\ prompt' = <<>> /\ suggestions' = <<>>
          /\ probe_runs' = <<>>
          /\ context_info' = NoneRec
          /\ turn_log' = <<>>
       \/ /\ \E sgs \in {<<>>, <<S_LS, S_RM>>} : suggestions' = sgs
          /\ turn_log' = Append(turn_log, "generate")
          /\ pc' = "present"
          /\ UNCHANGED <<errors, query, conversation_history, available_commands,
                         command_history, exec_results, prompt, probe_runs,
                         context_info>>
    /\ UNCHANGED <<gate_vars, input_vars, models_to_try, idx, attempts, printed,
                   successful_model, selected, adapter, exit_code, spawn_log, gate>>

\* process_query, lines 309-332 and main, lines 383-392: the user's answer
Present ==
    /\ pc = "present"
    /\ \E typed \in {<<>>, <<" ">>, <<"q">>, <<"2">>, <<"x">>, <<"]", "}">>} :
         LET r == display_suggestions(suggestions, typed)
             res == process_query_result(r)
             returned == IF res = "QUIT" THEN [quit |-> TRUE]
                         ELSE IF res = "None" THEN NoneRec
                         ELSE r.selected
         IN
         IF res = "continue"
         THEN /\ Len(conversation_history) < 2 * MaxContinue
              /\ conversation_history' = conversation_history
                    \o <<[role |-> <<"u", "s", "e", "r">>, content |-> query],
                         [role |-> <<"a", "s", "s", "i", "s", "t", "a", "n", "t">>,
                          content |-> json_dumps_suggestions(suggestions)]>>
              /\ query' = r.continuation
              /\ available_commands' = <<>> /\ command_history' = <<>>
              /\ exec_results' = <<>> /\ prompt' = <<>> /\ suggestions' = <<>>
              /\ probe_runs' = <<>>
              /\ context_info' = NoneRec
              /\ turn_log' = <<>>
              /\ pc' = "static"
              /\ UNCHANGED <<selected, successful_model, exit_code, errors>>
         ELSE IF main_reaction(res) = "exit"
         THEN /\ selected' = returned
              /\ exit_code' = 0
              /\ pc' = "exit"
              /\ UNCHANGED <<successful_model, turn_vars, errors>>
         ELSE IF main_reaction(res) = "next"
         THEN /\ selected' = returned
              /\ errors' = record_error(errors, [model |-> adapter.model,
                                reason |-> "No response generated", cand |-> idx,
                                later_turn |-> (TurnNo > 1)])
              /\ pc' = "loop"
              /\ query' = NoneText /\ conversation_history' = <<>>
              /\ available_commands' = <<>> /\ command_history' = <<>>
              /\ exec_results' = <<>> /\ prompt' = <<>> /\ suggestions' = <<>>
              /\ probe_runs' = <<>>
              /\ context_info' = NoneRec
              /\ turn_log' = <<>>
              /\ UNCHANGED <<successful_model, exit_code>>
         ELSE /\ selected' = returned
              /\ successful_model' = adapter.model
              /\ pc' = "gate"
              /\ UNCHANGED <<exit_code, turn_vars, errors>>
    /\ UNCHANGED <<gate_vars, input_vars, models_to_try, idx, attempts, printed,
                   adapter, spawn_log, gate>>

\* the gate running the command whatever the user answered
execution_gate_ignore_answer(command, allowed, answer) ==
    IF is_command_allowed(command, allowed) THEN [path |-> "direct", run |-> TRUE]
    ELSE IF answer THEN [path |-> "confirmed", run |-> TRUE]
    ELSE [path |-> "declined", run |-> TRUE]

\* main, lines 421-432: allow-listed commands run directly, others after confirmation
execution_gate(command, allowed, answer) ==
    IF is_command_allowed(command, allowed) THEN [path |-> "direct", run |-> TRUE]
    ELSE IF answer THEN [path |-> "confirmed", run |-> TRUE]
    ELSE [path |-> "declined", run |-> FALSE]

\* the execution step running the command of every suggestion shown last
ExecuteSelected_every_suggestion ==
    /\ pc = "gate"
    /\ \E answer \in BOOLEAN, outcome \in MainOutcomes :
         LET command == selected.command
             g == execution_gate(command, config.allowed_commands, answer)
             r == execute_command(command, FALSE, config.allowed_commands, outcome)
         IN  /\ gate' = g.path
             /\ spawn_log' = IF g.run /\ r.spawned
                             THEN spawn_log \cup {[command |-> suggestions[i].command,
                                                   phase |-> "selected"] :
                                                      i \in 1..Len(suggestions)}
                             ELSE spawn_log
    /\ exit_code' = 0
    /\ pc' = "exit"
    /\ UNCHANGED <<gate_vars, input_vars, loop_vars, turn_vars>>

\* main, lines 409-436: the selected command goes through the execution gate
ExecuteSelected ==
    /\ pc = "gate"
    /\ \E answer \in BOOLEAN, outcome \in MainOutcomes :
         LET command == selected.command
             g == execution_gate(command, config.allowed_commands, answer)
             r == execute_command(command, FALSE, config.allowed_commands, outcome)
         IN  /\ gate' = g.path
             /\ spawn_log' = IF g.run /\ r.spawned
                             THEN spawn_log \cup {[command |-> command, phase |-> "selected"]}
                             ELSE spawn_log
    /\ exit_code' = 0
    /\ pc' = "exit"
    /\ UNCHANGED <<gate_vars, input_vars, loop_vars, turn_vars>>

Next ==
    \/ Start
    \/ TryNext
    \/ Exhausted
    \/ GatherStatic
    \/ Probe
    \/ BuildPrompt
    \/ Generate
    \/ Present
    \/ ExecuteSelected

Spec == Init /\ [][Next]_vars

\* ------------------------------------------------------------------------
\* Properties of the session (Spec)
\* ------------------------------------------------------------------------
Allowed(command) == is_command_allowed(command, config.allowed_commands)

\* C1: a command is spawned during the dynamic probe only if it is allow-listed.
C1_ProbeOnlyAllowed ==
    \A s \in spawn_log : s.phase = "probe" => Allowed(s.command)

\* C2: the selected command runs without a prompt only if it is allow-listed;
\* otherwise it runs only after confirm_execution returned true, and a declined
\* command is not spawned.
C2_GateRespectsAllowList ==
    /\ \A s \in spawn_log :
         s.phase = "selected" =>
            /\ pc = "exit"
            /\ s.command = selected.command
            /\ (Allowed(s.command) /\ gate = "direct")
               \/ (~Allowed(s.command) /\ gate = "confirmed")
    /\ gate = "direct" => Allowed(selected.command)
    /\ gate \in {"confirmed", "declined"} => ~Allowed(selected.command)
    /\ gate = "declined" => ~(\E s \in spawn_log : s.phase = "selected")

\* the user declined "rm -rf /" and the run ended
C2_Witness ==
    /\ pc = "exit" /\ gate = "declined"
    /\ selected = S_RM
    /\ successful_model # None

\* the first two candidates failed in create_adapter and the third never failed
TwoRaiseThenWorking ==
    /\ Len(attempts) >= 3
    /\ attempts[1] = "raise" /\ attempts[2] = "raise" /\ attempts[3] = "adapter"
    /\ \A i \in 1..Len(errors) : errors[i].cand # 3

\* C6: when construction raises for the first two of three candidates and the
\* third's adapter works, the third is the one selected and the error list is
\* exactly the two earlier failures in trial order.
C6_ThirdSelectedAfterTwoFailures ==
    TwoRaiseThenWorking =>
        /\ idx = 3
        /\ Len(errors) = 2
        /\ \A i \in 1..2 : /\ errors[i].model = models_to_try[i][1]
                           /\ errors[i].cand = i
                           /\ errors[i].reason = "create_adapter raised"
        /\ successful_model \in {None, models_to_try[3][1]}
        /\ gate # None => successful_model = models_to_try[3][1]

\* the third candidate's suggestion was selected and executed
C6_Witness ==
    /\ TwoRaiseThenWorking
    /\ Len(models_to_try) = 3
    /\ pc = "exit" /\ gate = "direct"
    /\ successful_model = models_to_try[3][1]

\* C7: when all candidates were tried and none worked, the error list has one
\* entry per tried candidate, in trial order, every entry is printed, and the
\* process ends with exit code 1.
C7_OneErrorPerCandidate ==
    (pc = "exit" /\ successful_model = None /\ selected = NoneRec /\ models_to_try # <<>>) =>
        /\ exit_code = 1
        /\ Len(errors) = Len(models_to_try)
        /\ \A i \in 1..Len(errors) : errors[i].model = models_to_try[i][1]
        /\ printed = errors

\* C8: a turn whose parsed suggestion list is empty does not end the run: the
\* run ends with exit code 0 only after suggestions were presented.
C8_EmptyTurnDoesNotEndRun ==
    (pc = "exit" /\ exit_code = 0) => suggestions # <<>>

\* C9: after a provider error in a turn later than a candidate's first, no
\* other candidate is constructed or queried.
C9_NoFallbackAfterActive ==
    \A i \in 1..Len(errors) : errors[i].later_turn => idx = errors[i].cand

RoleTag(role) == IF role = <<"u", "s", "e", "r">> THEN "user" ELSE "assistant"

ConversationPart(p) == SelectSeq(p, LAMBDA sec : sec.tag \in {"user", "assistant"})

\* C10: the prompt of a continuation turn holds, in order, every earlier query
\* and its serialized suggestion set, starting with the original query, and
\* then the new continuation text.
C10_ContinuationPromptOrder ==
    (pc = "generate" /\ conversation_history # <<>>) =>
        /\ conversation_history[1].content = description_text
        /\ ConversationPart(prompt) =
              [i \in 1..Len(conversation_history) |->
                  Section(RoleTag(conversation_history[i].role),
                          conversation_history[i].content)]
              \o <<Section("user", query)>>

\* C11: the last section of the prompt handed to the provider is a user section
\* holding the current user input, whatever the conversation history is.
C11_PromptEndsWithCurrentInput ==
    (pc = "generate" /\ query # <<>>) => prompt[Len(prompt)] = Section("user", query)

\* C12: the conversation history is empty at the first turn and changes only by
\* a Continue transition appending the finished turn's query and its serialized
\* suggestion set; earlier turns are never modified, reordered or removed.
C12_HistoryGrowsOnlyByContinue ==
    [][conversation_history' # conversation_history =>
          /\ pc = "present" /\ pc' = "static"
          /\ conversation_history' = conversation_history \o
                 <<[role |-> <<"u", "s", "e", "r">>, content |-> query],
                   [role |-> <<"a", "s", "s", "i", "s", "t", "a", "n", "t">>,
                    content |-> json_dumps_suggestions(suggestions)]>>]_vars

\* the presenter returned the quit sentinel
QuitReturned == selected = [quit |-> TRUE]

\* C13: when the presenter returns the quit sentinel the run ends with exit code
\* 0, and from then on nothing is executed, requested or tried.
C13_QuitEndsRun ==
    /\ [](QuitReturned => pc = "exit" /\ exit_code = 0 /\ gate = None
                           /\ successful_model = None
                           /\ ~(\E s \in spawn_log : s.phase = "selected"))
    /\ [][~QuitReturned]_vars

\* the user typed q in the second turn of a session
C13_Witness ==
    /\ QuitReturned
    /\ Len(conversation_history) = 2
    /\ suggestions # <<>>

\* C20: a probe command that runs into the timeout makes execute_command return
\* a failure, the probe keeps no fragment for it, and the turn goes on to build
\* its prompt: no error is recorded and the run does not end.
C20_ProbeTimeoutProceeds ==
    \A i \in 1..Len(probe_runs) :
        probe_runs[i].kind = "TimeoutExpired" =>
            /\ ~probe_runs[i].success
            /\ ~(\E j \in 1..Len(exec_results) :
                    exec_results[j].command = probe_runs[i].command)
            /\ pc \in {"prompt", "generate", "present", "gate", "exit", "loop"}
            /\ (pc = "prompt" =>
                   /\ exit_code = NotExited
                   /\ \A e \in 1..Len(errors) : errors[e].cand # idx)

\* the second probe command timed out, the first one's output was kept
C20_Witness ==
    /\ pc = "prompt"
    /\ Len(probe_runs) = 2
    /\ probe_runs[2].kind = "TimeoutExpired"
    /\ Len(exec_results) = 1 /\ exec_results[1].command = probe_runs[1].command

\* C19: execute_command on a command that was spawned and ended with a non-zero
\* exit status returns a result whose success flag is false.
C19_NonZeroExitIsFailure ==
    (/\ call.op = "execute_command"
     /\ ret # NotReturned
     /\ ran # <<>>
     /\ call.outcome.kind = "completed"
     /\ call.outcome.returncode # 0) => ~ret.value.success

\* ------------------------------------------------------------------------
\* SpecTui: TUI.display_suggestions applied to enumerated lines
\* ------------------------------------------------------------------------
TuiSuggestionLists == {<<>>, <<S_LS>>, <<S_LS, S_RM>>}

\* the calls: every suggestion list with every line typed at the prompt
InitTui ==
    /\ call \in
          {[op |-> "display_suggestions", suggestions |-> sgs, typed |-> typed] :
              sgs \in TuiSuggestionLists,
              typed \in Strings({"q", "Q", "1", "3", " "}, MaxTypedLen)
                        \cup {<<"x">>, <<"2">>, <<"0">>, <<"]", "}">>, <<"l", "s">>,
                              <<"q", "u", "i", "t">>}}
    /\ ret = NotReturned
    /\ ran = <<>>
    /\ MainIdle

TuiDisplay ==
    /\ call.op = "display_suggestions"
    /\ ret = NotReturned
    /\ ret' = Returned(display_suggestions(call.suggestions, call.typed))
    /\ UNCHANGED <<call, ran, main_vars>>

SpecTui == InitTui /\ [][TuiDisplay]_vars

\* the typed line, stripped, is the number of one of the suggestions
InRangeNumber(line, sgs) ==
    isdigit(strip(line)) /\ 1 <= int(strip(line)) /\ int(strip(line)) <= Len(sgs)

\* C14: at the Present step an empty line and q in any letter case give the quit
\* sentinel (no selection, no continuation), an in-range number gives that
\* suggestion without continuation, any other text gives no selection and that
\* text as continuation; the result never carries both.
C14_PresenterAnswers ==
    (call.op = "display_suggestions" /\ ret # NotReturned /\ call.suggestions # <<>>) =>
        LET line == call.typed
            sgs == call.suggestions
            r == ret.value
        IN  /\ (line = <<>> \/ lower(strip(line)) = <<"q">>) =>
                   r = [selected |-> NoneRec, continuation |-> NoneText]
            /\ InRangeNumber(line, sgs) =>
                   r = [selected |-> sgs[int(strip(line))], continuation |-> NoneText]
            /\ (line # <<>> /\ lower(strip(line)) # <<"q">> /\ ~InRangeNumber(line, sgs)) =>
                   r = [selected |-> NoneRec, continuation |-> strip(line)]
            /\ ~(r.selected # NoneRec /\ r.continuation # NoneText)

\* ------------------------------------------------------------------------
\* json.loads(text): the value, or JSONDecodeError (ok = FALSE)
\* ------------------------------------------------------------------------
\* JSON values; a dict keeps its keys in insertion order
JStr(s) == [t |-> "str", s |-> s, keys |-> <<>>, items |-> <<>>]
JNum(s) == [t |-> "num", s |-> s, keys |-> <<>>, items |-> <<>>]
JLit(name) == [t |-> name, s |-> <<>>, keys |-> <<>>, items |-> <<>>]
JList(items) == [t |-> "list", s |-> <<>>, keys |-> <<>>, items |-> items]
JDict(keys, items) == [t |-> "dict", s |-> <<>>, keys |-> keys, items |-> items]

JsonFail == [ok |-> FALSE, val |-> JLit("null"), pos |-> 0]

\* end of the run of characters of `set` starting at i
run_end(s, i, set) ==
    LET stops == {j \in i..Len(s) : s[j] \notin set}
    IN  IF i > Len(s) THEN i
        ELSE IF stops = {} THEN Len(s) + 1
        ELSE CHOOSE j \in stops : \A k \in stops : j <= k

\* WHITESPACE.match(s, i).end()
json_skip_ws(s, i) == run_end(s, i, {" ", "\t", "\n", "\r"})

\* NUMBER_RE = (-?(?:0|[1-9]\d*))(\.\d+)?([eE][-+]?\d+)? matched at i
json_number(s, i) ==
    LET a == IF i <= Len(s) /\ s[i] = "-" THEN i + 1 ELSE i
        b == IF a <= Len(s) /\ s[a] = "0" THEN a + 1
             ELSE IF a <= Len(s) /\ s[a] \in Range(DigitChars) THEN run_end(s, a, Range(DigitChars))
             ELSE a
        c == IF b <= Len(s) /\ s[b] = "." /\ run_end(s, b + 1, Range(DigitChars)) > b + 1
             THEN run_end(s, b + 1, Range(DigitChars)) ELSE b
        d == IF c <= Len(s) /\ s[c] \in {"e", "E"}
             THEN LET e == IF c + 1 <= Len(s) /\ s[c + 1] \in {"-", "+"} THEN c + 2 ELSE c + 1
                  IN  IF run_end(s, e, Range(DigitChars)) > e THEN run_end(s, e, Range(DigitChars)) ELSE c
             ELSE c
    IN  IF b = a THEN JsonFail
        ELSE [ok |-> TRUE, val |-> JNum(SubSeq(s, i, d - 1)), pos |-> d]

RECURSIVE json_scanstring(_, _, _)
\* scanstring, strict: i is the position after the opening quote
json_scanstring(s, i, acc) ==
    IF i > Len(s) THEN JsonFail
    ELSE IF s[i] = "\"" THEN [ok |-> TRUE, val |-> JStr(acc), pos |-> i + 1]
    ELSE IF s[i] \in {"\n", "\t", "\r"} THEN JsonFail
    ELSE IF s[i] = "\\"
    THEN IF i + 1 > Len(s) THEN JsonFail
         ELSE CASE s[i + 1] \in {"\"", "\\", "/"} -> json_scanstring(s, i + 2, Append(acc, s[i + 1]))
                [] s[i + 1] = "n" -> json_scanstring(s, i + 2, Append(acc, "\n"))
                [] s[i + 1] = "t" -> json_scanstring(s, i + 2, Append(acc, "\t"))
                [] s[i + 1] = "r" -> json_scanstring(s, i + 2, Append(acc, "\r"))
                [] OTHER -> JsonFail
    ELSE json_scanstring(s, i + 1, Append(acc, s[i]))

json_literals ==
    <<[text |-> <<"n", "u", "l", "l">>, val |-> JLit("null")],
      [text |-> <<"t", "r", "u", "e">>, val |-> JLit("true")],
      [text |-> <<"f", "a", "l", "s", "e">>, val |-> JLit("false")],
      [text |-> <<"N", "a", "N">>, val |-> JNum(<<"N", "a", "N">>)],
      [text |-> <<"I", "n", "f", "i", "n", "i", "t", "y">>,
       val |-> JNum(<<"I", "n", "f", "i", "n", "i", "t", "y">>)],
      [text |-> <<"-", "I", "n", "f", "i", "n", "i", "t", "y">>,
       val |-> JNum(<<"-", "I", "n", "f", "i", "n", "i", "t", "y">>)]>>

\* s[i:].startswith(p)
startswith_at(s, i, p) == i + Len(p) - 1 <= Len(s) /\ SubSeq(s, i, i + Len(p) - 1) = p

RECURSIVE json_scan_once(_, _)
RECURSIVE json_array(_, _, _)
RECURSIVE json_object(_, _, _, _)

\* JSONArray after the first value position: i is where the next value starts
json_array(s, i, items) ==
    LET v == json_scan_once(s, i) IN
    IF ~v.ok THEN JsonFail
    ELSE LET j == json_skip_ws(s, v.pos) IN
         IF j > Len(s) THEN JsonFail
         ELSE IF s[j] = "]" THEN [ok |-> TRUE, val |-> JList(Append(items, v.val)), pos |-> j + 1]
         ELSE IF s[j] = "," THEN json_array(s, json_skip_ws(s, j + 1), Append(items, v.val))
         ELSE JsonFail

\* JSONObject: i is where the next key's opening quote must be
json_object(s, i, keys, items) ==
    IF i > Len(s) \/ s[i] # "\"" THEN JsonFail
    ELSE LET k == json_scanstring(s, i + 1, <<>>) IN
         IF ~k.ok THEN JsonFail
         ELSE LET c == json_skip_ws(s, k.pos) IN
              IF c > Len(s) \/ s[c] # ":" THEN JsonFail
              ELSE LET v == json_scan_once(s, json_skip_ws(s, c + 1)) IN
                   IF ~v.ok THEN JsonFail
                   ELSE LET j == json_skip_ws(s, v.pos)
                            d == IF \E n \in 1..Len(keys) : keys[n] = k.val.s
                                 THEN [keys |-> keys,
                                       items |-> [n \in 1..Len(items) |->
                                                     IF keys[n] = k.val.s THEN v.val ELSE items[n]]]
                                 ELSE [keys |-> Append(keys, k.val.s), items |-> Append(items, v.val)]
                        IN  IF j > Len(s) THEN JsonFail
                            ELSE IF s[j] = "}"
                            THEN [ok |-> TRUE, val |-> JDict(d.keys, d.items), pos |-> j + 1]
                            ELSE IF s[j] = ","
                            THEN json_object(s, json_skip_ws(s, j + 1), d.keys, d.items)
                            ELSE JsonFail

\* scanner.scan_once(s, i)
json_scan_once(s, i) ==
    IF i > Len(s) THEN JsonFail
    ELSE IF s[i] = "\"" THEN json_scanstring(s, i + 1, <<>>)
    ELSE IF s[i] = "{"
    THEN LET j == json_skip_ws(s, i + 1) IN
         IF j <= Len(s) /\ s[j] = "}"
         THEN [ok |-> TRUE, val |-> JDict(<<>>, <<>>), pos |-> j + 1]
         ELSE json_object(s, j, <<>>, <<>>)
    ELSE IF s[i] = "["
    THEN LET j == json_skip_ws(s, i + 1) IN
         IF j <= Len(s) /\ s[j] = "]"
         THEN [ok |-> TRUE, val |-> JList(<<>>), pos |-> j + 1]
         ELSE json_array(s, j, <<>>)
    ELSE IF \E n \in 1..Len(json_literals) : startswith_at(s, i, json_literals[n].text)
    THEN LET n == CHOOSE n \in 1..Len(json_literals) : startswith_at(s, i, json_literals[n].text)
         IN  [ok |-> TRUE, val |-> json_literals[n].val, pos |-> i + Len(json_literals[n].text)]
    ELSE json_number(s, i)

\* json.loads(s)
json_loads(s) ==
    LET v == json_scan_once(s, json_skip_ws(s, 1)) IN
    IF ~v.ok THEN [ok |-> FALSE, val |-> JLit("null")]
    ELSE IF json_skip_ws(s, v.pos) # Len(s) + 1 THEN [ok |-> FALSE, val |-> JLit("null")]
    ELSE [ok |-> TRUE, val |-> v.val]

\* ------------------------------------------------------------------------
\* main.py : parse_json_response, parse_text_response
\* ------------------------------------------------------------------------
\* the backtick character, which cannot be written inside a string of this language
BT == "bt"

\* characters matched by \s
regex_space == {" ", "\t", "\n", "\r"}

\* s.find(p, i): first position at or after i where p occurs, 0 when there is none
find(s, p, i) ==
    LET hits == {j \in i..(Len(s) - Len(p) + 1) : startswith_at(s, j, p)}
    IN  IF hits = {} THEN 0 ELSE CHOOSE j \in hits : \A k \in hits : j <= k

\* end of the run of \s characters starting at i
skip_space(s, i) == run_end(s, i, regex_space)

\* re.search(r'```json\s*(.*?)\s*```', response, re.DOTALL): group(1) when it matches
search_json_fence(response) ==
    LET i == find(response, <<BT, BT, BT, "j", "s", "o", "n">>, 1) IN
    IF i = 0 THEN [found |-> FALSE, group |-> <<>>]
    ELSE LET p == skip_space(response, i + 7)
             k == find(response, <<BT, BT, BT>>, p)
             others == {j \in p..(k - 1) : response[j] \notin regex_space}
             e == IF others = {} THEN p ELSE 1 + CHOOSE j \in others : \A m \in others : m <= j
         IN  IF k = 0 THEN [found |-> FALSE, group |-> <<>>]
             ELSE [found |-> TRUE, group |-> SubSeq(response, p, e - 1)]

\* end of the run of characters outside `stop` starting at i
span_end(s, i, stop) ==
    LET stops == {j \in i..Len(s) : s[j] \in stop}
    IN  IF i > Len(s) THEN i
        ELSE IF stops = {} THEN Len(s) + 1
        ELSE CHOOSE j \in stops : \A k \in stops : j <= k

RECURSIVE findall_backticks(_, _)
\* re.findall(r'`([^`]+)`', s)
findall_backticks(s, i) ==
    IF i > Len(s) \/ find(s, <<BT>>, i) = 0 THEN <<>>
    ELSE IF s[i] # BT THEN findall_backticks(s, find(s, <<BT>>, i))
    ELSE LET e == span_end(s, i + 1, {BT}) IN
         IF e > i + 1 /\ e <= Len(s)
         THEN <<SubSeq(s, i + 1, e - 1)>> \o findall_backticks(s, e + 1)
         ELSE findall_backticks(s, i + 1)

RECURSIVE findall_code_blocks(_, _)
\* re.findall(r'```(?:bash|sh)?\n?([^`]+)```', s); starts are the places where group 1
\* can begin, in the order the regex engine tries them
findall_code_blocks(s, i) ==
    IF i > Len(s) \/ find(s, <<BT, BT, BT>>, i) = 0 THEN <<>>
    ELSE IF ~startswith_at(s, i, <<BT, BT, BT>>)
    THEN findall_code_blocks(s, find(s, <<BT, BT, BT>>, i))
    ELSE LET after(q) == IF q <= Len(s) /\ s[q] = "\n" THEN <<q + 1, q>> ELSE <<q>>
             starts == (IF startswith_at(s, i + 3, <<"b", "a", "s", "h">>) THEN after(i + 7) ELSE <<>>)
                       \o (IF startswith_at(s, i + 3, <<"s", "h">>) THEN after(i + 5) ELSE <<>>)
                       \o after(i + 3)
             good == {n \in 1..Len(starts) :
                         LET e == span_end(s, starts[n], {BT})
                         IN  e > starts[n] /\ startswith_at(s, e, <<BT, BT, BT>>)}
         IN  IF good = {} THEN findall_code_blocks(s, i + 1)
             ELSE LET n == CHOOSE n \in good : \A m \in good : n <= m
                      e == span_end(s, starts[n], {BT})
                  IN  <<SubSeq(s, starts[n], e - 1)>> \o findall_code_blocks(s, e + 3)

RECURSIVE line_second_space(_, _, _)
\* the second \s* of the line pattern giving back characters: x + b is where (.+) starts
line_second_space(s, x, b) ==
    IF x + b <= Len(s) /\ s[x + b] # "\n" THEN x + b
    ELSE IF b = 0 THEN 0
    ELSE line_second_space(s, x, b - 1)

RECURSIVE line_first_space(_, _, _)
\* the first \s* of the line pattern giving back characters; the result is where (.+)
\* starts, 0 when the pattern does not match at i
line_first_space(s, i, a) ==
    LET x == i + a
        with_dollar == IF x <= Len(s) /\ s[x] = "$"
                       THEN line_second_space(s, x + 1, skip_space(s, x + 1) - (x + 1))
                       ELSE 0
        without == line_second_space(s, x, skip_space(s, x) - x)
        q == IF with_dollar # 0 THEN with_dollar ELSE without
    IN  IF q # 0 THEN q
        ELSE IF a = 0 THEN 0
        ELSE line_first_space(s, i, a - 1)

RECURSIVE findall_lines(_, _)
\* re.findall(r'^\s*\$?\s*(.+)$', s, re.MULTILINE)
findall_lines(s, i) ==
    IF i > Len(s) THEN <<>>
    ELSE IF ~(i = 1 \/ s[i - 1] = "\n")
    THEN IF find(s, <<"\n">>, i) = 0 THEN <<>> ELSE findall_lines(s, find(s, <<"\n">>, i) + 1)
    ELSE LET q == line_first_space(s, i, skip_space(s, i) - i) IN
         IF q = 0 THEN findall_lines(s, i + 1)
         ELSE LET e == span_end(s, q, {"\n"})
              IN  <<SubSeq(s, q, e - 1)>> \o findall_lines(s, e)

RECURSIVE found_commands(_)
\* the loop over the matches: stripped, empty ones and comments dropped
found_commands(matches) ==
    IF matches = <<>> THEN <<>>
    ELSE LET cmd == strip(Head(matches)) IN
         (IF cmd # <<>> /\ ~startswith(cmd, <<"#">>) THEN <<cmd>> ELSE <<>>)
         \o found_commands(Tail(matches))

\* a suggestion dict {'command': ..., 'description': ...}
JSuggestion(command, description) ==
    JDict(<<<<"c", "o", "m", "m", "a", "n", "d">>, <<"d", "e", "s", "c", "r", "i", "p", "t", "i", "o", "n">>>>, <<JStr(command), JStr(description)>>)

\* parse_text_response looking for lines first and for backtick spans last
parse_text_response_lines_first(response) ==
    LET commands == found_commands(findall_lines(response, 1))
                    \o found_commands(findall_code_blocks(response, 1))
                    \o found_commands(findall_backticks(response, 1))
        deduped == Dedupe(commands, {})
    IN  [i \in 1..Len(Take(deduped, 5)) |-> JSuggestion(deduped[i],
            <<"C", "o", "m", "m", "a", "n", "d", " ", "f", "o", "u", "n", "d", " ",
             "i", "n", " ", "r", "e", "s", "p", "o", "n", "s", "e">>)]

\* parse_text_response
parse_text_response(response) ==
    LET commands == found_commands(findall_backticks(response, 1))
                    \o found_commands(findall_code_blocks(response, 1))
                    \o found_commands(findall_lines(response, 1))
        deduped == Dedupe(commands, {})
    IN  [i \in 1..Len(Take(deduped, 5)) |-> JSuggestion(deduped[i],
            <<"C", "o", "m", "m", "a", "n", "d", " ", "f", "o", "u", "n", "d", " ",
             "i", "n", " ", "r", "e", "s", "p", "o", "n", "s", "e">>)]

\* value of d[k] for a key the dict has
JDictGet(d, k) == d.items[CHOOSE j \in 1..Len(d.keys) : d.keys[j] = k]

\* what parse_json_response returns once json.loads has answered: the value picked by
\* the shape of the data, or the text fallback after JSONDecodeError
handle_response_formats(data, response) ==
    IF ~data.ok THEN [raises |-> FALSE, value |-> JList(parse_text_response(response))]
    ELSE IF data.val.t = "dict"
    THEN IF \E j \in 1..Len(data.val.keys) : data.val.keys[j] = <<"s", "u", "g", "g", "e", "s", "t", "i", "o", "n", "s">>
         THEN [raises |-> FALSE, value |-> JDictGet(data.val, <<"s", "u", "g", "g", "e", "s", "t", "i", "o", "n", "s">>)]
         ELSE IF \E j \in 1..Len(data.val.keys) : data.val.keys[j] = <<"c", "o", "m", "m", "a", "n", "d", "s">>
         THEN [raises |-> FALSE, value |-> JDictGet(data.val, <<"c", "o", "m", "m", "a", "n", "d", "s">>)]
         ELSE [raises |-> FALSE, value |-> JList(<<data.val>>)]
    ELSE IF data.val.t = "list" THEN [raises |-> FALSE, value |-> data.val]
    ELSE [raises |-> FALSE, value |-> JList(<<>>)]

\* parse_json_response that never looks for a fence
parse_json_response_no_fence(response) ==
    IF response = NoneText THEN [raises |-> TRUE, value |-> JList(<<>>)]
    ELSE handle_response_formats(json_loads(response), response)

\* parse_json_response; raises stands for the TypeError re.search raises for None
parse_json_response(response) ==
    IF response = NoneText THEN [raises |-> TRUE, value |-> JList(<<>>)]
    ELSE LET json_match == search_json_fence(response)
             json_text == IF json_match.found THEN json_match.group ELSE response
         IN  handle_response_formats(json_loads(json_text), response)

\* ------------------------------------------------------------------------
\* SpecParse: parse_json_response applied to enumerated raw responses
\* ------------------------------------------------------------------------
MaxRespLen == 2

\* the response the documentation gives as an example
SpecExample == <<"{", "\"", "s", "u", "g", "g", "e", "s", "t", "i", "o", "n", "s", "\"", ":", "[", "{", "\"", "c", "o", "m", "m", "a", "n", "d", "\"", ":", "\"", "l", "s", "\"", ",", "\"", "d", "e", "s", "c", "r", "i", "p", "t", "i", "o", "n", "\"", ":", "\"", "l", "i", "s", "t", "\"", "}", "]", "}">>

BacktickPwd == <<BT>> \o PWD \o <<BT>>

\* texts that are neither JSON nor hold a command
GarbageTexts == {<<"?", "?", "?">>, <<"=", ")">>}

\* the calls: the four shapes parse_json_response accepts, built from a list of
\* suggestions and given as the whole response, inside a json fence, or inside a fence
\* with prose around; and raw responses that were not made from a suggestion list
InitParse ==
    /\ call \in
        LET json_list(sgs) ==
                <<"[">> \o join(<<",", " ">>, [i \in 1..Len(sgs) |-> json_suggestion(sgs[i])])
                \o <<"]">>
            ShapeText(shape, sgs) ==
                CASE shape = "suggestions" -> json_dumps_suggestions(sgs)
                  [] shape = "commands" ->
                         <<"{">> \o json_string(<<"c", "o", "m", "m", "a", "n", "d", "s">>)
                         \o <<":", " ">> \o json_list(sgs) \o <<"}">>
                  [] shape = "single" -> json_suggestion(sgs[1])
                  [] shape = "list" -> json_list(sgs)
            Wrap(wrap, text) ==
                CASE wrap = "bare" -> text
                  [] wrap = "fenced" ->
                         <<BT, BT, BT, "j", "s", "o", "n", "\n">> \o text \o <<"\n", BT, BT, BT>>
                  [] wrap = "prose" ->
                         <<"o", "k", ":", "\n", BT, BT, BT, "j", "s", "o", "n", "\n">> \o text
                         \o <<"\n", BT, BT, BT, "\n", "b", "y", "e">>
        IN  {[op |-> "parse_json_response", response |-> Wrap(wrap, ShapeText(shape, sgs)),
              shape |-> shape, wrap |-> wrap, sgs |-> sgs] :
                shape \in {"suggestions", "commands", "list"},
                wrap \in {"bare", "fenced", "prose"},
                sgs \in TuiSuggestionLists}
            \cup
            {[op |-> "parse_json_response", response |-> Wrap(wrap, ShapeText("single", <<sg>>)),
              shape |-> "single", wrap |-> wrap, sgs |-> <<sg>>] :
                wrap \in {"bare", "fenced", "prose"}, sg \in {S_LS, S_RM}}
            \cup
            {[op |-> "parse_json_response", response |-> r,
              shape |-> "raw", wrap |-> "bare", sgs |-> <<>>] :
                r \in
                    Strings({BT, "a", "#", "$", " ", "\n", "[", "]"}, MaxRespLen)
                    \cup {NoneText, SpecExample, BacktickPwd, <<"3">>, <<" ", "\n">>, <<"#", " ", "a">>}
                    \cup GarbageTexts
                    \cup {<<BT, "a", BT, " ", BT, "b", BT, "\n", BT, BT, BT, "s", "h", "\n", "c", "\n", BT, BT, BT, "\n", "$", " ", "d", "\n", "e", "\n", "f">>,
                          <<"$", " ", "a", "\n", BT, "a", BT, "\n", "#", " ", "x", "\n", "$", " ", "#", "y", "\n", "a">>,
                          <<BT, BT, BT, "b", "a", "s", "h", "\n", "l", "s", "\n", BT, BT, BT>>}
                    \cup {<<"{", "\"", "s", "u", "g", "g", "e", "s", "t", "i", "o", "n", "s", "\"", ":", " ", "n", "u", "l", "l", "}">>}}
    /\ ret = NotReturned
    /\ ran = <<>>
    /\ MainIdle

ParseResponse ==
    /\ call.op = "parse_json_response"
    /\ ret = NotReturned
    /\ ret' = Returned(parse_json_response(call.response))
    /\ UNCHANGED <<call, ran, main_vars>>

SpecParse == InitParse /\ [][ParseResponse]_vars

\* the parser has returned, or raised, for the response of the call
Parsed == call.op = "parse_json_response" /\ ret # NotReturned

\* the suggestion list as the parser returns it
JSuggestions(sgs) ==
    JList([i \in 1..Len(sgs) |-> JSuggestion(sgs[i].command, sgs[i].description)])

\* C15: parse_json_response raises for no raw response, whether empty text, text that
\* is not JSON, JSON of an unexpected shape or a None body.
C15_ParserNeverRaises ==
    Parsed => ~ret.value.raises

C17_BacktickSpanGivesOne ==
    (Parsed /\ call.response = BacktickPwd) =>
        /\ ~ret.value.raises
        /\ Len(ret.value.value.items) = 1
        /\ JDictGet(ret.value.value.items[1], <<"c", "o", "m", "m", "a", "n", "d">>) = JStr(PWD)

\* C18: empty text and garbage text parse to the empty suggestion list.
C18_EmptyOrGarbageGivesNone ==
    (Parsed /\ call.response \in {<<>>} \cup GarbageTexts) =>
        /\ ~ret.value.raises
        /\ ret.value.value = JList(<<>>)

\* ------------------------------------------------------------------------
\* Claims about context gathering and the candidate list (Spec)
\* ------------------------------------------------------------------------
\* C21: in any turn an exception raised while gathering PATH commands, while
\* gathering shell history, by needs_context or by running a probe command leaves
\* that channel's contribution empty, and the turn still goes from the probe to
\* prompt assembly and from there to generate.
C21_GatheringFailsSoft ==
    /\ [](pc \in {"prompt", "generate", "present"} =>
            LET model_config == config.models[adapter.model] IN
            /\ (model_config.include_path_commands /\ ~context_info.has_path_commands)
                   => available_commands = <<>>
            /\ (model_config.include_history_context /\ ~context_info.has_history)
                   => command_history = <<>>
            /\ context_info.warning => exec_results = <<>>)
    /\ [][/\ pc = "static" => pc' = "probe"
          /\ pc = "probe" => pc' = "prompt"
          /\ pc = "prompt" => pc' = "generate"]_vars

\* ------------------------------------------------------------------------
\* config.py : ModelConfig.from_dict, ProviderConfig.from_dict, Config.get_api_key
\* (a dict is a function from its keys; option values are texts)
\* ------------------------------------------------------------------------
ModelConfig_from_dict(data) ==
    [provider |-> data["provider"],
     model |-> data["model"],
     instructions |-> IF "instructions" \in DOMAIN data THEN data["instructions"] ELSE NoneText,
     include_path_commands |-> IF "include_path_commands" \in DOMAIN data
                               THEN data["include_path_commands"] ELSE FALSE,
     include_history_context |-> IF "include_history_context" \in DOMAIN data
                                 THEN data["include_history_context"] ELSE FALSE,
     history_context_size |-> IF "history_context_size" \in DOMAIN data
                              THEN data["history_context_size"] ELSE 500,
     api_key |-> IF "api_key" \in DOMAIN data THEN data["api_key"] ELSE NoneText,
     custom_options |->
        [k \in DOMAIN data \ {"provider", "model", "instructions", "include_path_commands",
                              "include_history_context", "history_context_size", "api_key"}
            |-> data[k]]]

ProviderConfig_from_dict(data) ==
    [base_url |-> IF "base_url" \in DOMAIN data THEN data["base_url"] ELSE NoneText,
     api_key |-> IF "api_key" \in DOMAIN data THEN data["api_key"] ELSE NoneText,
     custom_options |-> [k \in DOMAIN data \ {"base_url", "api_key"} |-> data[k]]]

\* Config.get_api_key
get_api_key(cfg, model_name) ==
    IF model_name \notin DOMAIN cfg.models THEN NoneText
    ELSE LET model_config == cfg.models[model_name]
             provider == model_config.provider
         IN  IF Truthy(model_config.api_key) THEN model_config.api_key
             ELSE IF provider \in DOMAIN cfg.providers /\ Truthy(cfg.providers[provider].api_key)
             THEN cfg.providers[provider].api_key
             ELSE IF provider \in DOMAIN env_var_map THEN cfg.env[env_var_map[provider]]
             ELSE NoneText

\* ------------------------------------------------------------------------
\* llm/factory.py : create_adapter, the configuration handed to the adapter class
\* ------------------------------------------------------------------------
\* dict.update: d.update(e)
update(d, e) == [k \in DOMAIN d \cup DOMAIN e |-> IF k \in DOMAIN e THEN e[k] ELSE d[k]]

\* create_adapter applying the provider's options after the model's
create_adapter_provider_last(model_name, cfg) ==
    IF create_adapter_outcomes(model_name, cfg) = {"None"}
    THEN [returns |-> "None", adapter_config |-> EmptyDict]
    ELSE LET model_config == cfg.models[model_name]
             has_provider == model_config.provider \in DOMAIN cfg.providers
             provider_config == cfg.providers[model_config.provider]
             with_model == update([model |-> model_config.model], model_config.custom_options)
             with_base_url == IF has_provider /\ Truthy(provider_config.base_url)
                              THEN DictSet(with_model, "base_url", provider_config.base_url)
                              ELSE with_model
             api_key == get_api_key(cfg, model_name)
             with_key == IF Truthy(api_key) THEN DictSet(with_base_url, "api_key", api_key)
                         ELSE with_base_url
         IN  [returns |-> "adapter_class",
              adapter_config |-> IF has_provider
                                 THEN update(with_key, provider_config.custom_options)
                                 ELSE with_key]

\* returns None, or reaches adapter_class(adapter_config) with this adapter_config
create_adapter(model_name, cfg) ==
    IF create_adapter_outcomes(model_name, cfg) = {"None"}
    THEN [returns |-> "None", adapter_config |-> EmptyDict]
    ELSE LET model_config == cfg.models[model_name]
             has_provider == model_config.provider \in DOMAIN cfg.providers
             provider_config == cfg.providers[model_config.provider]
             with_base_url == IF has_provider /\ Truthy(provider_config.base_url)
                              THEN [base_url |-> provider_config.base_url] ELSE EmptyDict
             with_provider == IF has_provider
                              THEN update(with_base_url, provider_config.custom_options)
                              ELSE with_base_url
             with_model == DictSet(with_provider, "model", model_config.model)
             api_key == get_api_key(cfg, model_name)
             with_key == IF Truthy(api_key) THEN DictSet(with_model, "api_key", api_key)
                         ELSE with_model
         IN  [returns |-> "adapter_class",
              adapter_config |-> update(with_key, model_config.custom_options)]

\* ------------------------------------------------------------------------
\* The setup functions applied to enumerated configurations and keys (SpecPure)
\* ------------------------------------------------------------------------
\* whitespace characters put around an enumerated key
MaxPad == 1

\* lines of an enumerated ignore_commands.txt
MaxItems == 2

\* commands in an enumerated shell history file
MaxHistory == 4

\* configurations as Config.load builds them from a file that gives the chat model
\* and the local model the key model_key, their providers the key provider_key and
\* the options provider_options, and the models the options model_options
SetupConfigs ==
    LET MODEL_KEY == <<"s", "k", "-", "m", "o", "d", "e", "l", "-", "k", "e", "y", "-", "0", "1", "2", "3", "4", "5", "6", "7", "8", "9">>
        PROVIDER_KEY == <<"s", "k", "-", "p", "r", "o", "v", "i", "d", "e", "r", "-", "k", "e", "y", "-", "0", "1", "2", "3", "4", "5", "6", "7", "8", "9">>
        ENV_KEY == <<"s", "k", "-", "e", "n", "v", "-", "k", "e", "y", "-", "0", "1", "2", "3", "4", "5", "6", "7", "8", "9", "a", "b">>
        OVERRIDE_KEY == <<"o", "v", "e", "r", "r", "i", "d", "e", "-", "k", "e", "y">>
        Keyed(d, v) == IF v = NoneText THEN d ELSE DictSet(d, "api_key", v)
        Load(model_key, provider_key, env_key, provider_options, model_options, defaults) ==
            [default_models |-> defaults,
             providers |->
                [ollama |-> ProviderConfig_from_dict(Keyed(update([base_url |-> <<"h", "t", "t", "p", ":", "/", "/", "l", "o", "c", "a", "l", "h", "o", "s", "t", ":", "1", "1", "4", "3", "4">>], provider_options), provider_key)),
                 openai |-> ProviderConfig_from_dict(Keyed(provider_options, provider_key)),
                 anthropic |-> ProviderConfig_from_dict(EmptyDict),
                 test |-> ProviderConfig_from_dict(EmptyDict)],
             models |->
                [gpt4 |-> ModelConfig_from_dict(Keyed(update([provider |-> "openai", model |-> <<"g", "p", "t", "-", "4", "o">>], model_options), model_key)),
                 claude |-> ModelConfig_from_dict([provider |-> "anthropic", model |-> <<"c", "l", "a", "u", "d", "e", "-", "3">>]),
                 ollama |-> ModelConfig_from_dict(Keyed(update([provider |-> "ollama", model |-> <<"l", "l", "a", "m", "a", "3", ".", "1">>], model_options), model_key)),
                 test |-> ModelConfig_from_dict([provider |-> "test", model |-> <<"t", "e", "s", "t", "-", "m", "o", "d", "e", "l">>])],
             env |-> [OPENAI_API_KEY |-> env_key, ANTHROPIC_API_KEY |-> NoneText]]
    IN  {Load(model_key, provider_key, env_key, provider_options, model_options, defaults) :
            model_key \in {NoneText, MODEL_KEY, OVERRIDE_KEY},
            provider_key \in {NoneText, PROVIDER_KEY, <<"T", "O", "D", "O">>},
            env_key \in {NoneText, ENV_KEY},
            provider_options \in {EmptyDict, [temperature |-> <<"0", ".", "2">>, model |-> <<"s", "h", "a", "r", "e", "d">>]},
            model_options \in {EmptyDict, [temperature |-> <<"0", ".", "7">>, base_url |-> <<"h", "t", "t", "p", ":", "/", "/", "g", "p", "u", ":", "1", "1", "4", "3", "4">>]},
            defaults \in {<<"test", "gpt4", "claude", "ollama">>, <<"ollama", "gpt4", "ollama", "gpt3">>}}

InitPure ==
    /\ MainIdle
    /\ ret = NotReturned
    /\ ran = <<>>
    /\ LET Spaces(n) == [i \in 1..n |-> " "]
           Run(n) == [i \in 1..n |-> "a"]
           KeyBodies ==
               {Run(n) : n \in (MinKeyLen - 2)..(MinKeyLen + 1)}
               \cup {<<"s", "k", "-", "A", "b", "0", "_">> \o Run(MinKeyLen - 7), Run(MinKeyLen - 1) \o <<"!">>,
                     Run(10) \o <<" ">> \o Run(10), Run(MinKeyLen) \o <<"\n">>, <<"T", "E", "S", "T">>, <<"D", "e", "m", "o">>}
               \cup Range(placeholders)
       IN  call \in
             {[op |-> "is_valid_api_key", api_key |-> api_key] :
                 api_key \in {NoneText, <<>>}
                     \cup {Spaces(l) \o body \o Spaces(r) :
                             body \in KeyBodies, l \in 0..MaxPad, r \in 0..MaxPad}}
             \cup {[op |-> op, cfg |-> cfg, model_name |-> model_name] :
                     op \in {"get_api_key", "get_api_key_for_model", "create_adapter"},
                     cfg \in SetupConfigs,
                     model_name \in {"gpt4", "claude", "ollama", "test", "gpt3"}}
             \cup {[op |-> "build_model_list", cfg |-> cfg, user_model |-> user] :
                     cfg \in SetupConfigs, user \in {None, "gpt4", "test", "gpt3"}}
             \cup {[op |-> "build_bloom_filter", items |-> items, fp_prob |-> fp_prob] :
                     items \in SeqsUpTo({"2to3", "FreeCAD", "ls", "cd", "grep"}, MaxItems) \ {<<>>},
                     fp_prob \in {"0.1", "0.01", "0.001"}}
             \cup {[op |-> "BloomFilter", items_count |-> items_count, fp_prob |-> fp_prob] :
                     items_count \in 1..(MaxItems + 1),
                     fp_prob \in {"0.9", "0.5", "0.1", "0.01", "0.001"}}
             \cup {[op |-> "get_bloom_filter", bloom_file |-> bloom_file,
                   ignore_file |-> ignore_file] :
                     bloom_file \in {NoneRec, [corrupt |-> TRUE],
                                     [corrupt |-> FALSE, data |-> <<142, 36>>, size |-> 14,
                                      hash_count |-> 9]},
                     ignore_file \in {NoneRec, [items |-> <<>>], [items |-> <<"cd">>]}}
             \cup {[op |-> "build_structured_prompt", user_input |-> LS,
                   instructions |-> instructions, available_commands |-> avail,
                   command_history |-> hist, exec_results |-> results,
                   conversation_history |-> history, available_commands_limit |-> limit] :
                     instructions \in {NoneText, <<>>, <<"b", "e">>},
                     avail \in {<<>>, <<<<".", "x">>>>, <<<<".", "x">>, <<"c", "c">>, LS>>,
                                <<PWD, LS, <<".", "x">>, RM>>},
                     hist \in {EmptyDict, [command_history |-> <<PWD>>],
                               [recent_commands |-> <<>>],
                               [recent_commands |-> <<LS_LA>>, command_history |-> <<PWD>>]},
                     results \in {<<>>, <<<<PWD, <<"/">>>>>>},
                     history \in {<<>>,
                                  <<<<"u", "s", "e", "r", ":", " ", "r", "m">>,
                                    <<"a", "s", "s", "i", "s", "t", "a", "n", "t", ":", " ", "n", "o">>>>,
                                  <<<<"u", "s", "e", "r", ":", " ", "r", "m">>,
                                    <<"a", "s", "s", "i", "s", "t", "a", "n", "t", ":", " ", "x", " ", "l", "s">>>>},
                     limit \in {1, 2, available_commands_limit}}
             \cup {[op |-> "get_shell_history",
                   lines |-> <<<<"#", " ", "c", "\n">>, <<"\n">>>>
                             \o [i \in 1..Len(commands) |->
                                    (IF format = "zsh"
                                     THEN <<":", " ", "1", "7", ":", "0", ";">> ELSE <<" ">>)
                                    \o commands[i] \o <<"\n">>],
                   history_output |-> history_output,
                   history_size |-> history_size,
                   history |-> commands \o (IF history_output = <<>> THEN <<>> ELSE <<RM>>)] :
                     commands \in SeqsUpTo({LS, PWD, LS_LA}, MaxHistory),
                     format \in {"bash", "zsh"},
                     history_output \in {<<>>, <<<<" ", " ", "1", "2", " ", " ", "r", "m">>>>},
                     history_size \in 0..2}

IsValidApiKey ==
    /\ ret = NotReturned /\ call.op = "is_valid_api_key"
    /\ ret' = Returned(is_valid_api_key(call.api_key))
    /\ UNCHANGED <<call, ran, main_vars>>

ConfigGetApiKey ==
    /\ ret = NotReturned /\ call.op = "get_api_key"
    /\ ret' = Returned(get_api_key(call.cfg, call.model_name))
    /\ UNCHANGED <<call, ran, main_vars>>

GetApiKeyForModel ==
    /\ ret = NotReturned /\ call.op = "get_api_key_for_model"
    /\ ret' = Returned(get_api_key_for_model(call.cfg, call.model_name))
    /\ UNCHANGED <<call, ran, main_vars>>

BuildModelList ==
    /\ ret = NotReturned /\ call.op = "build_model_list"
    /\ ret' = Returned(build_model_list(call.cfg, call.user_model))
    /\ UNCHANGED <<call, ran, main_vars>>

\* create_adapter returns None, or the adapter class is called and returns or raises
CreateAdapter ==
    /\ ret = NotReturned /\ call.op = "create_adapter"
    /\ \E outcome \in create_adapter_outcomes(call.model_name, call.cfg) :
          ret' = Returned([outcome |-> outcome,
                           adapter_config |-> create_adapter(call.model_name, call.cfg).adapter_config])
    /\ UNCHANGED <<call, ran, main_vars>>


\* ------------------------------------------------------------------------
\* Claims about the candidate list, credentials and adapter construction (SpecPure)
\* ------------------------------------------------------------------------
\* the credential of a model by the documented priority: the model's own key when
\* it has one, else the provider's, else the environment variable of the provider,
\* else the marker of the provider that needs no credential
PriorityCredential(cfg, model_name) ==
    IF model_name \notin DOMAIN cfg.models THEN NoneText
    ELSE LET model_config == cfg.models[model_name]
             provider == model_config.provider
         IN  IF model_config.api_key # NoneText THEN model_config.api_key
             ELSE IF provider \in DOMAIN cfg.providers /\ cfg.providers[provider].api_key # NoneText
             THEN cfg.providers[provider].api_key
             ELSE IF provider \in DOMAIN env_var_map /\ cfg.env[env_var_map[provider]] # NoneText
             THEN cfg.env[env_var_map[provider]]
             ELSE IF provider = "ollama" THEN <<"o", "l", "l", "a", "m", "a", "-", "l", "o", "c", "a", "l">>
             ELSE NoneText

\* the names of a candidate list
Names(try_list) == [i \in 1..Len(try_list) |-> try_list[i][1]]

\* C22: build_model_list returns the user's model first, then the default models in
\* their configured order, no model twice, and a model is listed exactly when its
\* resolved credential passes the validity heuristic or its provider needs none.
C22_CandidateList ==
    (call.op = "build_model_list" /\ ret.done) =>
        LET cfg == call.cfg
            Listed(m) == /\ m \in DOMAIN cfg.models
                         /\ \/ is_valid_api_key(PriorityCredential(cfg, m))
                            \/ cfg.models[m].provider = "ollama"
            asked == (IF call.user_model # None THEN <<call.user_model>> ELSE <<>>)
                        \o cfg.default_models
        IN  Names(ret.value) = Dedupe(SelectSeq(asked, Listed), {})

\* C23: is_valid_api_key is true exactly for a key that is non-empty, at least 20
\* characters long, not a placeholder and made of letters, digits, "_" and "-" only.
C23_ValidKeyExactly ==
    (call.op = "is_valid_api_key" /\ ret.done) =>
        (ret.value <=>
            /\ call.api_key # NoneText
            /\ call.api_key # <<>>
            /\ Len(call.api_key) >= 20
            /\ call.api_key \notin Range(placeholders)
            /\ \A i \in 1..Len(call.api_key) :
                  call.api_key[i] \in Range(UpperLetters) \cup Range(LowerLetters)
                                      \cup Range(DigitChars) \cup {"_", "-"})

\* C23 as amended: the same, of the key with the whitespace around it removed.
C23_ValidStrippedKeyExactly ==
    (call.op = "is_valid_api_key" /\ ret.done) =>
        (ret.value <=>
            /\ call.api_key # NoneText
            /\ call.api_key # <<>>
            /\ Len(strip(call.api_key)) >= 20
            /\ strip(call.api_key) \notin Range(placeholders)
            /\ \A i \in 1..Len(strip(call.api_key)) :
                  strip(call.api_key)[i] \in Range(UpperLetters) \cup Range(LowerLetters)
                                             \cup Range(DigitChars) \cup {"_", "-"})

\* a key of exactly 20 allowed characters with a space before it was accepted
C23_Witness ==
    /\ call.op = "is_valid_api_key" /\ ret.done /\ ret.value
    /\ call.api_key # NoneText
    /\ Len(call.api_key) = 21 /\ Head(call.api_key) = " "

\* C24: the credential resolved for a model is the model's own key when it has one,
\* else the provider's key, else the environment variable of the provider, else the
\* marker of a provider that needs none; a lower source is used only when every
\* higher one is absent.
C24_CredentialPriority ==
    (call.op \in {"get_api_key", "get_api_key_for_model"} /\ ret.done) =>
        ret.value = PriorityCredential(call.cfg, call.model_name)

\* C25: in the configuration handed to the adapter every key has the value of the
\* model's custom options when they set it, else of the provider's custom options
\* when they set it, else (the base URL) of the provider's base URL.
C25_MergePriority ==
    (call.op = "create_adapter" /\ ret.done /\ ret.value.outcome # "None") =>
        LET model_config == call.cfg.models[call.model_name]
            provider_config == call.cfg.providers[model_config.provider]
            adapter_config == ret.value.adapter_config
        IN  /\ \A k \in DOMAIN model_config.custom_options :
                  k \in DOMAIN adapter_config /\ adapter_config[k] = model_config.custom_options[k]
            /\ \A k \in DOMAIN provider_config.custom_options \ DOMAIN model_config.custom_options :
                  k \in DOMAIN adapter_config /\ adapter_config[k] = provider_config.custom_options[k]
            /\ ("base_url" \notin DOMAIN model_config.custom_options
                    /\ provider_config.base_url # NoneText)
                  => adapter_config["base_url"] = provider_config.base_url

\* C25 as amended: the same for every key but "model", whose value is the model
\* profile's model name unless the model's custom options set it.
C25_MergePriorityButModel ==
    (call.op = "create_adapter" /\ ret.done /\ ret.value.outcome # "None") =>
        LET model_config == call.cfg.models[call.model_name]
            provider_config == call.cfg.providers[model_config.provider]
            adapter_config == ret.value.adapter_config
        IN  /\ \A k \in DOMAIN model_config.custom_options :
                  k \in DOMAIN adapter_config /\ adapter_config[k] = model_config.custom_options[k]
            /\ \A k \in (DOMAIN provider_config.custom_options \ DOMAIN model_config.custom_options)
                            \ {"model"} :
                  k \in DOMAIN adapter_config /\ adapter_config[k] = provider_config.custom_options[k]
            /\ ("base_url" \notin DOMAIN model_config.custom_options
                    /\ provider_config.base_url # NoneText)
                  => adapter_config["base_url"] = provider_config.base_url
            /\ "model" \notin DOMAIN model_config.custom_options
                  => adapter_config["model"] = model_config.model

\* an adapter was built for a model whose options and whose provider's options both
\* set the temperature, while only the provider sets a base URL through its profile
C25_Witness ==
    /\ call.op = "create_adapter" /\ ret.done /\ ret.value.outcome = "adapter"
    /\ LET model_config == call.cfg.models[call.model_name]
           provider_config == call.cfg.providers[model_config.provider]
       IN  /\ "temperature" \in DOMAIN model_config.custom_options
           /\ "temperature" \in DOMAIN provider_config.custom_options
           /\ model_config.custom_options["temperature"]
                 # provider_config.custom_options["temperature"]
           /\ provider_config.base_url # NoneText

\* C26: a configured model of each of the four provider variants (local service, two
\* hosted APIs, test double) is accepted as a candidate and create_adapter returns an
\* adapter for it.
C26_FourVariantsConstruct ==
    (/\ call.op = "create_adapter" /\ ret.done
     /\ call.model_name \in DOMAIN call.cfg.models
     /\ \/ call.cfg.models[call.model_name].provider \in {"ollama", "test"}
        \/ /\ call.cfg.models[call.model_name].provider \in {"openai", "anthropic"}
           /\ is_valid_api_key(PriorityCredential(call.cfg, call.model_name)))
    => /\ ret.value.outcome # "None"
       /\ \E i \in 1..Len(build_model_list(call.cfg, call.model_name)) :
             build_model_list(call.cfg, call.model_name)[i][1] = call.model_name

\* ------------------------------------------------------------------------
\* bloom_filter.py : BloomFilter (items are command names)
\* ------------------------------------------------------------------------
\* mmh3.hash(item, seed), MurmurHash3 x86 32-bit as a signed number, for seeds 0..9
mmh3_hash(item, seed) ==
    (CASE item = "2to3" -> <<7213613, 602658554, -1958845686, -1035452834, 720403147, 1879091802, -1379454653, -2144098879, 2054290455, -338655056>>
       [] item = "FreeCAD" -> <<-302502220, -1272967051, 2110551848, 1539726084, -139802930, -1213226738, 1842435942, 1074611575, -1361557893, 1827247143>>
       [] item = "ls" -> <<400114344, 325063395, 1315201192, -271880626, 391297370, -99494464, 497644390, 1660313436, 925905056, 61292390>>
       [] item = "cd" -> <<-2136211564, 447959881, -893289848, -1622888801, 737173108, -12151021, 1364295838, -1684127988, -1595696306, 1925883273>>
       [] item = "grep" -> <<728062994, -552798881, -280041554, 1957371899, -382043168, 1170508229, -1318532161, 240253291, -1005115149, -546771169>>)[seed + 1]

\* -math.log(p) / math.log(2) ** 2 in millionths for the probabilities in use
bits_per_item(p) ==
    CASE p = "0.9" -> 219294 [] p = "0.5" -> 1442695 [] p = "0.1" -> 4792529
      [] p = "0.01" -> 9585058 [] p = "0.001" -> 14377587

\* BloomFilter.get_size: int(-(n * math.log(p)) / (math.log(2) ** 2))
get_size(n, p) == (n * bits_per_item(p)) \div 1000000

\* BloomFilter.get_hash_count: int((m / n) * math.log(2))
get_hash_count(m, n) == (m * 693147) \div (n * 1000000)

\* BloomFilter.__init__; bit_array[d + 1] is bit d
BloomFilter(items_count, fp_prob) ==
    LET size == get_size(items_count, fp_prob)
    IN  [size |-> size,
         hash_count |-> get_hash_count(size, items_count),
         bit_array |-> [d \in 1..size |-> 0]]

\* BloomFilter.add hashing with the default seed on every round
add_unseeded(self, item) ==
    [self EXCEPT !.bit_array =
        [d \in 1..Len(self.bit_array) |->
            IF \E i \in 0..(self.hash_count - 1) : mmh3_hash(item, 0) % self.size = d - 1
            THEN 1 ELSE self.bit_array[d]]]

\* BloomFilter.add
add(self, item) ==
    [self EXCEPT !.bit_array =
        [d \in 1..Len(self.bit_array) |->
            IF \E i \in 0..(self.hash_count - 1) : mmh3_hash(item, i) % self.size = d - 1
            THEN 1 ELSE self.bit_array[d]]]

\* BloomFilter.contains
contains(self, item) ==
    \A i \in 0..(self.hash_count - 1) :
        self.bit_array[(mmh3_hash(item, i) % self.size) + 1] # 0

RECURSIVE add_all(_, _)
\* the loop of BloomFilter.from_file over the items read
add_all(bf, items) ==
    IF items = <<>> THEN bf ELSE add_all(add(bf, Head(items)), Tail(items))

\* BloomFilter.from_file, items: the stripped non-blank lines of the file
from_file(items, fp_prob) == add_all(BloomFilter(Len(items), fp_prob), items)

\* to_bytes packing the first bit of every eight lowest
to_bytes_low_bit_first(self) ==
    LET bit(d) == IF d <= Len(self.bit_array) THEN self.bit_array[d] ELSE 0
    IN  [j \in 1..((self.size + 7) \div 8) |->
            bit(8 * j - 7) + 2 * bit(8 * j - 6) + 4 * bit(8 * j - 5)
            + 8 * bit(8 * j - 4) + 16 * bit(8 * j - 3) + 32 * bit(8 * j - 2)
            + 64 * bit(8 * j - 1) + 128 * bit(8 * j)]

\* BloomFilter.to_bytes: bitarray.tobytes, eight bits a byte, first bit highest,
\* the last byte filled with zero bits
to_bytes(self) ==
    LET bit(d) == IF d <= Len(self.bit_array) THEN self.bit_array[d] ELSE 0
    IN  [j \in 1..((self.size + 7) \div 8) |->
            128 * bit(8 * j - 7) + 64 * bit(8 * j - 6) + 32 * bit(8 * j - 5)
            + 16 * bit(8 * j - 4) + 8 * bit(8 * j - 3) + 4 * bit(8 * j - 2)
            + 2 * bit(8 * j - 1) + bit(8 * j)]

\* BloomFilter.from_bytes: bitarray.frombytes appends eight bits for every byte
from_bytes(data, size, hash_count) ==
    [size |-> size,
     hash_count |-> hash_count,
     bit_array |-> [d \in 1..(8 * Len(data)) |->
                       (data[(d + 7) \div 8] \div (2 ^ (7 - ((d - 1) % 8)))) % 2]]

\* get_bloom_filter; cached is the global _bloom_filter (NoneRec for None), bloom_file
\* what pickle.load gives for ignore_commands_bloom.pkl and ignore_file the items of
\* ignore_commands.txt (NoneRec for a file that does not exist). BloomFilter(0, p)
\* raises ZeroDivisionError in get_hash_count, which divides m by n
get_bloom_filter(cached, bloom_file, ignore_file) ==
    LET construct(n, filter) ==
            IF n = 0 THEN [raises |-> TRUE, value |-> NoneRec, cached |-> NoneRec]
            ELSE [raises |-> FALSE, value |-> filter, cached |-> filter]
    IN  IF cached # NoneRec THEN [raises |-> FALSE, value |-> cached, cached |-> cached]
        ELSE IF bloom_file # NoneRec /\ ~bloom_file.corrupt
        THEN LET loaded == from_bytes(bloom_file.data, bloom_file.size, bloom_file.hash_count)
             IN  [raises |-> FALSE, value |-> loaded, cached |-> loaded]
        ELSE IF ignore_file # NoneRec
        THEN construct(Len(ignore_file.items),
                       IF ignore_file.items = <<>> THEN NoneRec
                       ELSE from_file(ignore_file.items, "0.001"))
        ELSE construct(0, NoneRec)

\* should_ignore_command called for three names, one after the other, in a process
\* that starts with no filter loaded: every call begins with get_bloom_filter()
GetBloomFilter ==
    /\ ret = NotReturned /\ call.op = "get_bloom_filter"
    /\ LET first == get_bloom_filter(NoneRec, call.bloom_file, call.ignore_file)
           second == get_bloom_filter(first.cached, call.bloom_file, call.ignore_file)
           third == get_bloom_filter(second.cached, call.bloom_file, call.ignore_file)
           answer(r, command, name) ==
               IF r.raises THEN "ZeroDivisionError"
               ELSE IF should_ignore_command(command,
                                             IF contains(r.value, name) THEN {command} ELSE {})
                    THEN "True" ELSE "False"
       IN  ret' = Returned([filters |-> <<first, second, third>>,
                            ignored |-> <<answer(first, <<".", "x">>, "ls"),
                                          answer(second, LS, "ls"),
                                          answer(third, <<"c", "d">>, "cd")>>])
    /\ UNCHANGED <<call, ran, main_vars>>

\* BloomFilter(items_count, fp_prob) for a positive number of items
NewBloomFilter ==
    /\ ret = NotReturned /\ call.op = "BloomFilter"
    /\ ret' = Returned(BloomFilter(call.items_count, call.fp_prob))
    /\ UNCHANGED <<call, ran, main_vars>>

\* build_bloom_filter.py : main builds the filter from the file, saves its bytes
\* with size and hash_count, and loads them again
BuildBloomFilter ==
    /\ ret = NotReturned /\ call.op = "build_bloom_filter"
    /\ LET bf == from_file(call.items, call.fp_prob)
           bloom_data == [data |-> to_bytes(bf), size |-> bf.size, hash_count |-> bf.hash_count]
       IN  ret' = Returned([bf |-> bf,
                            bloom_data |-> bloom_data,
                            bf2 |-> from_bytes(bloom_data.data, bloom_data.size,
                                               bloom_data.hash_count)])
    /\ UNCHANGED <<call, ran, main_vars>>

\* ------------------------------------------------------------------------
\* context_gather.py : get_shell_history
\* ------------------------------------------------------------------------
\* get_shell_history with every older command kept once, the recent ones too
get_shell_history_older_all(lines, history_output, history_size) ==
    LET FileCommand(raw) ==
            LET line == strip(raw)
                zsh == startswith(line, <<":", " ">>) /\ \E i \in 1..Len(line) : line[i] = ";"
                semicolon == CHOOSE i \in 1..Len(line) :
                                 line[i] = ";" /\ \A j \in 1..(i - 1) : line[j] # ";"
                command == IF zsh THEN strip(SubSeq(line, semicolon + 1, Len(line))) ELSE line
            IN  IF command # <<>> /\ ~startswith(command, <<"#">>) THEN <<command>> ELSE <<>>
        BuiltinCommand(raw) ==
            LET line == strip(raw)
                gaps == {i \in 1..Len(line) : line[i] \in StripWhitespace}
                gap == CHOOSE i \in gaps : \A j \in gaps : i <= j
            IN  IF gaps # {} /\ isdigit(SubSeq(line, 1, gap - 1))
                THEN <<lstrip(SubSeq(line, gap + 1, Len(line)))>> ELSE <<>>
        Collect(texts, Command(_)) ==
            LET found == [i \in 1..Len(texts) |-> Command(texts[i])]
                kept == SelectSeq(found, LAMBDA c : c # <<>>)
            IN  [i \in 1..Len(kept) |-> kept[i][1]]
        appended == Collect(lines, FileCommand) \o Collect(history_output, BuiltinCommand)
        all_commands == [i \in 1..Len(appended) |-> appended[Len(appended) + 1 - i]]
        recent_commands == Take(all_commands, history_size)
        older_unique == Dedupe(Drop(all_commands, history_size), {})
    IN  <<recent_commands, older_unique>>

\* get_shell_history; lines are the lines of the history files that exist, in the
\* order the files are read, history_output the lines `bash -c history` printed
get_shell_history(lines, history_output, history_size) ==
    LET FileCommand(raw) ==
            LET line == strip(raw)
                zsh == startswith(line, <<":", " ">>) /\ \E i \in 1..Len(line) : line[i] = ";"
                semicolon == CHOOSE i \in 1..Len(line) :
                                 line[i] = ";" /\ \A j \in 1..(i - 1) : line[j] # ";"
                command == IF zsh THEN strip(SubSeq(line, semicolon + 1, Len(line))) ELSE line
            IN  IF command # <<>> /\ ~startswith(command, <<"#">>) THEN <<command>> ELSE <<>>
        BuiltinCommand(raw) ==
            LET line == strip(raw)
                gaps == {i \in 1..Len(line) : line[i] \in StripWhitespace}
                gap == CHOOSE i \in gaps : \A j \in gaps : i <= j
            IN  IF gaps # {} /\ isdigit(SubSeq(line, 1, gap - 1))
                THEN <<lstrip(SubSeq(line, gap + 1, Len(line)))>> ELSE <<>>
        Collect(texts, Command(_)) ==
            LET found == [i \in 1..Len(texts) |-> Command(texts[i])]
                kept == SelectSeq(found, LAMBDA c : c # <<>>)
            IN  [i \in 1..Len(kept) |-> kept[i][1]]
        appended == Collect(lines, FileCommand) \o Collect(history_output, BuiltinCommand)
        all_commands == [i \in 1..Len(appended) |-> appended[Len(appended) + 1 - i]]
        recent_commands == Take(all_commands, history_size)
        older_unique == Dedupe(Drop(all_commands, history_size), Range(recent_commands))
    IN  <<recent_commands, older_unique>>

\* get_shell_history called on history files written from a list of commands, in
\* bash format or in zsh format, after a comment line and a blank line
GetShellHistory ==
    /\ ret = NotReturned /\ call.op = "get_shell_history"
    /\ ret' = Returned(get_shell_history(call.lines, call.history_output, call.history_size))
    /\ UNCHANGED <<call, ran, main_vars>>

\* build_structured_prompt called as the tests call it (the ignore set answers yes for cc)
BuildStructuredPrompt ==
    /\ ret = NotReturned /\ call.op = "build_structured_prompt"
    /\ ret' = Returned(build_structured_prompt(call.user_input, call.instructions,
                           call.available_commands, call.command_history,
                           call.exec_results, call.conversation_history,
                           call.available_commands_limit, {<<"c", "c">>}))
    /\ UNCHANGED <<call, ran, main_vars>>

SpecPure ==
    InitPure /\ [][\/ IsValidApiKey
                   \/ ConfigGetApiKey
                   \/ GetApiKeyForModel
                   \/ BuildModelList
                   \/ CreateAdapter
                   \/ BuildBloomFilter
                   \/ BuildStructuredPrompt
                   \/ GetShellHistory
                   \/ GetBloomFilter
                   \/ NewBloomFilter]_vars

\* ------------------------------------------------------------------------
\* Claims about the ignore set (SpecPure)
\* ------------------------------------------------------------------------
\* C27: every item added to a BloomFilter built with at least one item is contained,
\* whatever other items were added before or after it.
C27_NoFalseNegatives ==
    (call.op = "build_bloom_filter" /\ ret.done) =>
        \A i \in 1..Len(call.items) : contains(ret.value.bf, call.items[i])

\* two different items were added to a filter with several hash functions and a
\* third item is not contained
C27_Witness ==
    /\ call.op = "build_bloom_filter" /\ ret.done
    /\ Len(call.items) = 2 /\ call.items[1] # call.items[2]
    /\ ret.value.bf.hash_count >= 2
    /\ ~contains(ret.value.bf, "grep")

\* C28: the filter rebuilt by from_bytes from to_bytes, size and hash_count answers
\* contains like the original for every inserted item and every probe not inserted,
\* also when the bit count is not a multiple of 8.
C28_SaveLoadSameAnswers ==
    (call.op = "build_bloom_filter" /\ ret.done) =>
        \A item \in {"2to3", "FreeCAD", "ls", "cd", "grep"} :
            contains(ret.value.bf2, item) <=> contains(ret.value.bf, item)

\* a filter whose bit count is not a multiple of 8 came back from its bytes, with an
\* item it contains and a probe it does not
C28_Witness ==
    /\ call.op = "build_bloom_filter" /\ ret.done
    /\ ret.value.bf.size % 8 # 0
    /\ Len(ret.value.bf2.bit_array) > ret.value.bf.size
    /\ contains(ret.value.bf2, "ls")
    /\ ~contains(ret.value.bf2, "cd")

\* ------------------------------------------------------------------------
\* Claims about the order of a turn and about the fallback loop (Spec)
\* ------------------------------------------------------------------------
\* C29: in every turn needs_context is invoked and the probe commands it asked for
\* have run before build_structured_prompt and before generate are called, and the
\* PATH names and the shell history are gathered in every turn whose flags enable
\* them, whatever the probe answered and also when it failed.
C29_ProbeBeforePrompt ==
    LET At(name) == {i \in 1..Len(turn_log) : turn_log[i] = name} IN
    /\ \A i \in At("build_structured_prompt") \cup At("generate") :
          /\ \E j \in At("needs_context") : j < i
          /\ \A j \in At("execute_command") : j < i
    /\ pc \in {"generate", "present"} => At("build_structured_prompt") # {}
    /\ pc = "present" => At("generate") # {}
    /\ pc \in {"probe", "prompt", "generate", "present"} =>
          /\ config.models[adapter.model].include_path_commands
                => At("get_path_commands") # {}
          /\ config.models[adapter.model].include_history_context
                => At("get_shell_history") # {}

\* the second turn of a conversation reached the presenter after a probe that ran a
\* command and then failed, with the PATH names gathered
C29_Witness ==
    /\ pc = "present" /\ TurnNo = 2
    /\ context_info.warning
    /\ \E i \in 1..Len(turn_log) : turn_log[i] = "execute_command"
    /\ \E i \in 1..Len(turn_log) : turn_log[i] = "get_path_commands"

\* C30: the fallback loop constructs and tries each candidate at most once, in list
\* order; a failing candidate costs one attempt and the run goes on; after a turn
\* that ended in a selection or a quit no later candidate is constructed or queried;
\* so there are at most as many attempts as candidates.
C30_FallbackLoopBounded ==
    /\ [](/\ Len(attempts) = idx
          /\ idx <= Len(models_to_try)
          /\ pc \in {"static", "probe", "prompt", "generate", "present"}
                => adapter.model = models_to_try[idx][1]
          /\ \A i \in 1..Len(errors) :
                /\ errors[i].cand <= idx
                /\ errors[i].model = models_to_try[errors[i].cand][1]
          /\ \A i, j \in 1..Len(errors) : i < j => errors[i].cand < errors[j].cand)
    /\ [][/\ idx' \in {idx, idx + 1}
          /\ idx' = idx + 1 => (pc = "loop" /\ attempts' # attempts)
          /\ selected # NoneRec
                => (idx' = idx /\ attempts' = attempts /\ adapter' = adapter
                    /\ prompt' = prompt)
          /\ (errors' # errors /\ idx' < Len(models_to_try))
                => (pc' = "loop" /\ exit_code' = NotExited)]_vars

\* the first candidate failed in a turn, the second was selected and executed, and
\* the third was never tried
C30_Witness ==
    /\ pc = "exit" /\ successful_model # None
    /\ idx = 2 /\ Len(errors) = 1 /\ errors[1].reason = "generate raised"
    /\ Len(models_to_try) = 3

\* ------------------------------------------------------------------------
\* Claims about the credential a candidate is constructed with (SpecPure)
\* ------------------------------------------------------------------------
\* C31: a candidate that build_model_list admitted on a valid key is constructed by
\* create_adapter with that same key, never with another (invalid or placeholder) one.
C31_ConstructedWithAdmittingKey ==
    (call.op = "create_adapter" /\ ret.done /\ ret.value.outcome # "None") =>
        \A i \in 1..Len(build_model_list(call.cfg, None)) :
            LET candidate == build_model_list(call.cfg, None)[i]
            IN  (candidate[1] = call.model_name /\ is_valid_api_key(candidate[2]))
                    => /\ "api_key" \in DOMAIN ret.value.adapter_config
                       /\ ret.value.adapter_config["api_key"] = candidate[2]

\* ------------------------------------------------------------------------
\* Claims about what a command accepted by the allow-list starts (SpecGate)
\* ------------------------------------------------------------------------
\* C32: every program started by a command that ran because is_command_allowed
\* accepted it (execute_command asked to require confirmation, or gather_context)
\* is in the allow set, also when the command chains programs with ; && or |.
C32_EveryStartedProgramAllowed ==
    ((call.op = "execute_command" /\ ret.done /\ call.require_confirmation)
        \/ (call.op = "gather_context" /\ ret.done)) =>
        \A i \in 1..Len(ran) :
            \A j \in 1..Len(shell_programs(ran[i])) :
                shell_programs(ran[i])[j] \in call.allowed

SectionRank(tag) ==
    CASE tag = "system_prompt" -> 1
      [] tag = "user_prompt" -> 2
      [] tag = "available_commands" -> 3
      [] tag = "command_history" -> 4
      [] tag = "exec_result" -> 5
      [] OTHER -> 6

\* C34: build_structured_prompt emits its sections in the fixed order system,
\* model instructions, available commands, command history, exec result,
\* conversation turns, current user input; each optional section exactly when its
\* input is non-empty and never with an empty body; the system section and the
\* final user section with the current input are always there.
C34_SectionsInOrderWhenNonEmpty ==
    (call.op = "build_structured_prompt" /\ ret.done) =>
        LET parts == ret.value
            Has(tag) == \E i \in 1..Len(parts) : parts[i].tag = tag
        IN  /\ parts[1] = Section("system_prompt", SYSTEM_PROMPT)
            /\ \A i, j \in 1..Len(parts) :
                  i < j => /\ SectionRank(parts[i].tag) <= SectionRank(parts[j].tag)
                           /\ SectionRank(parts[i].tag) < 6 => parts[i].tag # parts[j].tag
            /\ Has("user_prompt") <=> Truthy(call.instructions)
            /\ Has("available_commands") <=> call.available_commands # <<>>
            /\ Has("command_history") <=> call.command_history # EmptyDict
            /\ Has("exec_result") <=> call.exec_results # <<>>
            /\ \A i \in 1..Len(parts) :
                  SectionRank(parts[i].tag) \in 2..5 => parts[i].body # <<>>
            /\ parts[Len(parts)] = Section("user", call.user_input)

RECURSIVE split(_, _)
\* str.split(sep) for a one-character separator
split(s, sep) ==
    IF \A i \in 1..Len(s) : s[i] # sep THEN <<s>>
    ELSE LET at == CHOOSE i \in 1..Len(s) : s[i] = sep /\ \A j \in 1..(i - 1) : s[j] # sep
         IN  <<SubSeq(s, 1, at - 1)>> \o split(SubSeq(s, at + 1, Len(s)), sep)

\* C36: the names of the available-commands section are names of the input for
\* which should_ignore_command is false, in input order, the first
\* available_commands_limit of them: the cap is applied after filtering.
C36_AvailableFilteredThenCapped ==
    (call.op = "build_structured_prompt" /\ ret.done /\ call.available_commands # <<>>) =>
        LET bf == {<<"c", "c">>}
            section == (CHOOSE i \in 1..Len(ret.value) :
                            ret.value[i].tag = "available_commands")
            body == ret.value[section].body
            names == IF body = <<>> THEN <<>> ELSE split(body, " ")
            kept == {i \in 1..Len(call.available_commands) :
                        ~should_ignore_command(call.available_commands[i], bf)}
        IN  /\ \A n \in 1..Len(names) :
                  /\ ~startswith(names[n], <<".">>)
                  /\ names[n] \notin bf
                  /\ \E i \in kept :
                        /\ call.available_commands[i] = names[n]
                        /\ Cardinality({j \in kept : j < i}) = n - 1
            /\ Len(names) <= call.available_commands_limit
            /\ Len(names) = IF Cardinality(kept) < call.available_commands_limit
                            THEN Cardinality(kept) ELSE call.available_commands_limit

\* two ignored names stood before the only kept one and the limit was one name
C36_Witness ==
    /\ call.op = "build_structured_prompt" /\ ret.done
    /\ call.available_commands = <<<<".", "x">>, <<"c", "c">>, LS>>
    /\ call.available_commands_limit = 1
    /\ \E i \in 1..Len(ret.value) :
          ret.value[i] = Section("available_commands", LS)

\* ------------------------------------------------------------------------
\* Claims about the fallback text parser (SpecParse)
\* ------------------------------------------------------------------------
\* C35: for a response that is not JSON the parser returns at most 5 suggestions with
\* pairwise different commands, none empty or starting with "#": the first five of
\* the different commands found, those of backtick spans before those of fenced
\* blocks before those of lines, each at the place of its first occurrence.
C35_FallbackFiveDistinctInOrder ==
    (/\ call.op = "parse_json_response" /\ ret.done
     /\ call.response # NoneText
     /\ ~search_json_fence(call.response).found
     /\ ~json_loads(call.response).ok) =>
        LET result == [i \in 1..Len(ret.value.value.items) |->
                          JDictGet(ret.value.value.items[i],
                                   <<"c", "o", "m", "m", "a", "n", "d">>).s]
            Found(matches) == {strip(matches[i]) : i \in 1..Len(matches)}
                                 \ ({<<>>} \cup {c \in {strip(matches[i]) : i \in 1..Len(matches)} :
                                                    startswith(c, <<"#">>)})
            spans == Found(findall_backticks(call.response, 1))
            blocks == Found(findall_code_blocks(call.response, 1))
            lines == Found(findall_lines(call.response, 1))
            Kind(c) == IF c \in spans THEN 1 ELSE IF c \in blocks THEN 2 ELSE 3
        IN  /\ ~ret.value.raises
            /\ Len(result) <= 5
            /\ \A i, j \in 1..Len(result) : i < j =>
                  /\ result[i] # result[j]
                  /\ Kind(result[i]) <= Kind(result[j])
            /\ \A i \in 1..Len(result) :
                  /\ result[i] # <<>>
                  /\ ~startswith(result[i], <<"#">>)
                  /\ result[i] \in spans \cup blocks \cup lines
            /\ Len(result) = IF Cardinality(spans \cup blocks \cup lines) < 5
                             THEN Cardinality(spans \cup blocks \cup lines) ELSE 5
            /\ \A c \in spans \cup blocks \cup lines :
                  (\A i \in 1..Len(result) : result[i] # c)
                     => \A i \in 1..Len(result) : Kind(result[i]) <= Kind(c)

\* a response with two backtick spans, a fenced block and dollar lines was cut to five
\* commands: the spans, the block and the first line
C35_Witness ==
    /\ call.op = "parse_json_response" /\ ret.done
    /\ Len(ret.value.value.items) = 5
    /\ JDictGet(ret.value.value.items[1], <<"c", "o", "m", "m", "a", "n", "d">>) = JStr(<<"a">>)
    /\ JDictGet(ret.value.value.items[4], <<"c", "o", "m", "m", "a", "n", "d">>) = JStr(<<"c">>)
    /\ Len(findall_lines(call.response, 1)) = 7

\* ------------------------------------------------------------------------
\* Claims about the shell history (SpecPure)
\* ------------------------------------------------------------------------
\* C37: get_shell_history(N) returns (recent, older): recent is the N most recent
\* commands of the history, most recent first; older holds each command of the rest
\* of the history that is not in recent exactly once, in the order of its most
\* recent occurrence; together the two lists hold every command of the history.
C37_RecentThenOlderUnique ==
    (call.op = "get_shell_history" /\ ret.done) =>
        LET newest_first == [i \in 1..Len(call.history) |->
                                call.history[Len(call.history) + 1 - i]]
            N == call.history_size
            recent == ret.value[1]
            older == ret.value[2]
            rest == [i \in 1..(Len(newest_first) - Len(recent)) |-> newest_first[Len(recent) + i]]
            First(c) == CHOOSE i \in 1..Len(rest) :
                            rest[i] = c /\ \A j \in 1..(i - 1) : rest[j] # c
        IN  /\ Len(recent) = IF N < Len(newest_first) THEN N ELSE Len(newest_first)
            /\ \A i \in 1..Len(recent) : recent[i] = newest_first[i]
            /\ \A i \in 1..Len(older) :
                  /\ older[i] \in Range(rest)
                  /\ older[i] \notin Range(recent)
            /\ \A i, j \in 1..Len(older) :
                  i < j => (older[i] # older[j] /\ First(older[i]) < First(older[j]))
            /\ Range(recent) \cup Range(older) = Range(call.history)

\* the history ls, pwd, ls -la, ls in zsh format followed by rm from the history
\* builtin, asked for its 2 most recent commands: rm and ls are recent, ls -la and pwd
\* are older and the older ls is left out
C37_Witness ==
    /\ call.op = "get_shell_history" /\ ret.done
    /\ call.history = <<LS, PWD, LS_LA, LS, RM>>
    /\ call.history_size = 2
    /\ ret.value = <<<<RM, LS>>, <<LS_LA, PWD>>>>

\* ------------------------------------------------------------------------
\* Claims about failures inside the gate (SpecGate)
\* ------------------------------------------------------------------------
\* C38: is_command_allowed and execute_command return a value for every command
\* text: a command that cannot be tokenized (a quote left open, nothing after an
\* escape) is not allowed, and a run that timed out or failed to start is returned
\* as a result with success false and empty stdout.
C38_GateFailuresAreValues ==
    LET quotes == {i \in 1..Len(call.command) : call.command[i] = "'"}
        plain == \A i \in 1..Len(call.command) : call.command[i] \notin {"\"", "\\"}
        untokenizable == \/ (plain /\ Cardinality(quotes) % 2 = 1)
                         \/ call.command \in {<<"l", "s", " ", "\"", "r", "m">>,
                                              <<"l", "s", "\\">>}
    IN  /\ (call.op = "is_command_allowed" /\ ret.done) =>
              /\ ret.value \in BOOLEAN
              /\ untokenizable => ret.value = FALSE
        /\ (call.op = "execute_command" /\ ret.done) =>
              /\ ret.value.success \in BOOLEAN
              /\ (untokenizable /\ call.require_confirmation) =>
                    (ret.value.success = FALSE /\ ret.value.stdout = <<>> /\ ran = <<>>)
              /\ (ran # <<>> /\ call.outcome.kind \in {"TimeoutExpired", "OSError"}) =>
                    (ret.value.success = FALSE /\ ret.value.stdout = <<>>)
              /\ ret.value.success =>
                    (ran # <<>> /\ call.outcome.kind = "completed")

\* ls with a quote left open was refused although ls is allow-listed
C38_Witness ==
    /\ call.op = "execute_command" /\ ret.done
    /\ call.command = <<"l", "s", " ", "'">>
    /\ call.allowed = {LS} /\ call.require_confirmation
    /\ call.outcome.kind = "OSError"
    /\ ret.value.success = FALSE /\ ran = <<>>

\* ------------------------------------------------------------------------
\* Claims about loading and sizing the ignore set (SpecPure)
\* ------------------------------------------------------------------------
\* C39: when neither the saved filter nor the list file exists, get_bloom_filter
\* returns an empty filter without failing, should_ignore_command is then true for
\* a name starting with "." and false for every other name, and later calls return
\* the same instance.
C39_NoFilesGivesEmptyFilter ==
    (/\ call.op = "get_bloom_filter" /\ ret.done
     /\ call.bloom_file = NoneRec /\ call.ignore_file = NoneRec) =>
        /\ \A i \in 1..3 : ~ret.value.filters[i].raises
        /\ ret.value.filters[2].value = ret.value.filters[1].value
        /\ ret.value.filters[3].value = ret.value.filters[1].value
        /\ ret.value.ignored = <<"True", "False", "False">>

\* C40: a filter built for n items and target rate p has ceil(-(n ln p) / (ln 2)^2)
\* bits and round((m / n) ln 2) hash functions, at least one bit and at least one
\* hash function, so that a name that was not inserted is not contained by default.
C40_SizedByCeilAndRound ==
    (call.op = "BloomFilter" /\ ret.done) =>
        LET n == call.items_count
            m == (n * bits_per_item(call.fp_prob) + 999999) \div 1000000
            k == (2 * m * 693147 + n * 1000000) \div (2 * n * 1000000)
        IN  /\ ret.value.size = m
            /\ ret.value.hash_count = k
            /\ ret.value.size >= 1
            /\ ret.value.hash_count >= 1
            /\ \A item \in {"2to3", "FreeCAD", "ls", "cd", "grep"} :
                  ~contains(ret.value, item)

====
